---- MODULE Spec2Model ----
(***************************************************************************)
(* A model of the Firestore adapter: the Backoff Executor                  *)
(* (core/utils.ts retryWithBackoff, reached through each service's         *)
(* withRetry), the Connection Lifecycle Manager                            *)
(* (config/connection.factory.ts), the Facade                              *)
(* (adapter/FireStoreDBAdapter.ts) and the Instance Registry               *)
(* (adapter/DatabaseManager.ts).                                           *)
(***************************************************************************)
EXTENDS Integers, Sequences, FiniteSets, TLC

(***************************************************************************)
(* Bounds of the model.                                                    *)
(***************************************************************************)
\* largest RetryConfig.maxRetries explored
MaxRetriesBound == 3
\* the clock runs from 0 to MaxTime (abstract time units)
MaxTime == 2
\* AdapterOptions.maxIdleTime, in the clock's units
MaxIdleTime == 1
\* operationCount is explored up to MaxOps
MaxOps == 2
\* Facade objects constructed in one run
MaxFacades == 2
\* apps created by admin.initializeApp in one run
MaxApps == 2

Min(a, b) == IF a <= b THEN a ELSE b

(***************************************************************************)
(* Part 1.  Backoff Executor                                               *)
(***************************************************************************)

\* The whitelist of isRetryableError.
RetryableCodes ==
  {"UNAVAILABLE", "DEADLINE_EXCEEDED", "RESOURCE_EXHAUSTED", "ABORTED", "INTERNAL"}

\* Shapes of the errors an operation throws: its code and status properties
\* ("" is an absent property, which is falsy like the empty string).
ErrorShapes ==
  { [code |-> "UNAVAILABLE", status |-> ""],
    [code |-> "INTERNAL", status |-> ""],
    [code |-> "", status |-> "ABORTED"],
    [code |-> "NOT_FOUND", status |-> ""],
    [code |-> "PERMISSION_DENIED", status |-> "UNAVAILABLE"],
    [code |-> "", status |-> ""] }

\* Error objects: a shape and the invocation that threw it (its identity).
ErrorObject(shape, n) ==
  [ok |-> FALSE, code |-> shape.code, status |-> shape.status, id |-> n]

\* The outcome of an invocation that resolved.
Resolved(n) == [ok |-> TRUE, code |-> "", status |-> "", id |-> n]

\* The RetryConfig values explored.
RetryConfigs ==
  [ maxRetries : 0..MaxRetriesBound,
    initialDelay : {1, 100},
    maxDelay : {50, 250, 5000},
    backoffMultiplier : {1, 2, 3} ]

OperationNames == {"read", "atomicIncrement"}

NoError == [ok |-> TRUE, code |-> "", status |-> "", id |-> 0]
NoConfig == [maxRetries |-> 0, initialDelay |-> 0, maxDelay |-> 0, backoffMultiplier |-> 0]

VARIABLES
  pc,             \* "idle", "passthrough", "retrying", "returned", "threw"
  enableRetry,    \* the service's enableRetry flag
  hasConfig,      \* whether the service was given a RetryConfig
  retryConfig,    \* the RetryConfig (NoConfig when none was given)
  operationName,
  attempt,        \* the loop variable of retryWithBackoff
  delay,          \* the local variable delay of retryWithBackoff
  lastError,      \* the local variable lastError of retryWithBackoff
  calls,          \* the outcome of every invocation of the operation, in order
  sleeps,         \* the duration of every sleep, in order
  thrown          \* what the call threw to its caller (NoThrow if nothing)

retryVars ==
  <<pc, enableRetry, hasConfig, retryConfig, operationName, attempt, delay,
    lastError, calls, sleeps, thrown>>

NoThrow == [kind |-> "none"]

\* const code = error.code || error.status
ErrorCode(error) == IF error.code # "" THEN error.code ELSE error.status

isRetryableErrorWhatever(error) == TRUE

isRetryableError(error) == ErrorCode(error) \in RetryableCodes

\* new RetryExhaustedError(operation, attempts, lastError): code RETRY_EXHAUSTED,
\* context {operation, attempts, lastError: lastError.message}
RetryExhaustedError(operation, attempts, error) ==
  [kind |-> "RetryExhaustedError", code |-> "RETRY_EXHAUSTED",
   operation |-> operation, attempts |-> attempts, lastError |-> error]

\* throw error: the caller receives the operation's own error object
Rethrow(error) == [kind |-> "original", error |-> error]

\* if (!this.enableRetry || !this.retryConfig) return operation();
PassthroughOnlyWhenBoth(enabled, configured) == ~enabled /\ ~configured

Passthrough(enabled, configured) == ~enabled \/ ~configured

\* sleep(Math.min(delay, config.maxDelay))
SleepDurationUnclamped(d, config) == d

SleepDuration(d, config) == Min(d, config.maxDelay)

\* if (attempt === config.maxRetries) break;
BudgetExhaustedOffByOne(a, config) == a + 1 >= config.maxRetries

BudgetExhausted(a, config) == a = config.maxRetries

RetryInit ==
  /\ pc = "idle"
  /\ enableRetry = TRUE
  /\ hasConfig = FALSE
  /\ retryConfig = NoConfig
  /\ operationName = "read"
  /\ attempt = 0
  /\ delay = 0
  /\ lastError = NoError
  /\ calls = <<>>
  /\ sleeps = <<>>
  /\ thrown = NoThrow

\* A service operation hands its call sequence to withRetry.
WithRetry(enabled, configured, config, name) ==
  /\ pc = "idle"
  /\ enableRetry' = enabled
  /\ hasConfig' = configured
  /\ retryConfig' = IF configured THEN config ELSE NoConfig
  /\ operationName' = name
  /\ attempt' = 0
  /\ delay' = IF Passthrough(enabled, configured) THEN 0 ELSE config.initialDelay
  /\ pc' = IF Passthrough(enabled, configured) THEN "passthrough" ELSE "retrying"
  /\ UNCHANGED <<lastError, calls, sleeps, thrown>>

\* The operation resolves: withRetry / retryWithBackoff return its value.
OperationResolves ==
  /\ pc \in {"passthrough", "retrying"}
  /\ calls' = Append(calls, Resolved(Len(calls) + 1))
  /\ pc' = "returned"
  /\ UNCHANGED <<enableRetry, hasConfig, retryConfig, operationName, attempt,
                 delay, lastError, sleeps, thrown>>

\* The operation rejects while retry is off: return operation() passes the
\* rejection on.
OperationRejectsPassthrough(shape) ==
  /\ pc = "passthrough"
  /\ LET error == ErrorObject(shape, Len(calls) + 1) IN
       /\ calls' = Append(calls, error)
       /\ thrown' = Rethrow(error)
  /\ pc' = "threw"
  /\ UNCHANGED <<enableRetry, hasConfig, retryConfig, operationName, attempt,
                 delay, lastError, sleeps>>

\* The operation rejects inside the loop of retryWithBackoff: the catch block,
\* then either the break and the throw after the loop, the rethrow, or the
\* sleep and the next iteration.
OperationRejectsRetrying(shape) ==
  /\ pc = "retrying"
  /\ LET error == ErrorObject(shape, Len(calls) + 1) IN
       /\ calls' = Append(calls, error)
       /\ lastError' = error
       /\ IF BudgetExhausted(attempt, retryConfig)
            THEN /\ thrown' = RetryExhaustedError(operationName,
                                                  retryConfig.maxRetries + 1, error)
                 /\ pc' = "threw"
                 /\ UNCHANGED <<attempt, delay, sleeps>>
            ELSE IF ~isRetryableError(error)
              THEN /\ thrown' = Rethrow(error)
                   /\ pc' = "threw"
                   /\ UNCHANGED <<attempt, delay, sleeps>>
              ELSE /\ sleeps' = Append(sleeps, SleepDuration(delay, retryConfig))
                   /\ delay' = delay * retryConfig.backoffMultiplier
                   /\ attempt' = attempt + 1
                   /\ UNCHANGED <<thrown, pc>>
  /\ UNCHANGED <<enableRetry, hasConfig, retryConfig, operationName>>

(***************************************************************************)
(* Part 2.  Connection Lifecycle Manager, Facade and Instance Registry     *)
(***************************************************************************)

\* ConnectionFactory objects constructed in one run (reset() discards one)
MaxFactories == 2

FactoryIds == 1..MaxFactories
FacadeIds == 1..MaxFacades

\* Names under which Facades are registered.
Names == {"a", "b", ""}

\* The names that are not the empty string.
PlainNames == Names \ {""}

\* The name argument of a close() that closeInstance did not make.
NoName == "(no name)"

\* The service families a Facade builds lazily.  The six getters of
\* FireStoreDBAdapter are the same code; two of them are followed here.
Families == {"crud", "transaction"}

\* What the constructor finds when it reads globalThis.EdgeRuntime.
EdgeRuntimeStates == {"absent", "present", "unreadable"}

\* Where the try block of initialize() may throw.
InitFailures == {"none", "initializeApp", "firestore", "settings"}

VARIABLES
  now,                  \* the clock (Date.now())
  instance,             \* ConnectionFactory.instance (0 is unset)
  factoriesCreated,     \* ConnectionFactory objects constructed so far
  factories,            \* the fields of each ConnectionFactory
  adminApps,            \* admin.apps: the live apps of the Admin SDK
  appsCreated,          \* calls of admin.initializeApp that returned an app
  facadesCreated,       \* FireStoreDBAdapter objects constructed so far
  facades,              \* the fields of each FireStoreDBAdapter
  instances,            \* DatabaseManager.instances (0 is no entry)
  defaultInstanceName,  \* DatabaseManager.defaultInstanceName
  pendingCloses,        \* managers with a close() of their own awaiting app.delete()
  closeAll,             \* the closeAll() that awaits its closes, if any
  lastCall              \* the latest call that returned or threw

connVars ==
  <<now, instance, factoriesCreated, factories, adminApps,
    appsCreated, facadesCreated, facades, instances, defaultInstanceName,
    pendingCloses, closeAll, lastCall>>

\* The fields of a ConnectionFactory after its field initialisers ran.
\* metrics.idleTime is left out: it is written by checkIdleConnection as
\* now - lastActivity and read by nothing but getMetrics.
NewFactory(pooling) ==
  [ app |-> 0, db |-> 0, isConnected |-> FALSE, lastActivity |-> now,
    operationCount |-> 0, idleCheckInterval |-> FALSE,
    enablePooling |-> pooling ]

\* A ConnectionFactory that was never constructed.
NoFactory ==
  [ app |-> 0, db |-> 0, isConnected |-> FALSE, lastActivity |-> 0,
    operationCount |-> 0, idleCheckInterval |-> FALSE,
    enablePooling |-> FALSE ]

NoServices == [fam \in Families |-> 0]

\* The fields of a FireStoreDBAdapter; services holds the database handle each
\* cached service was built on (0 is null).  closing is "no", "close" or
\* "closeInstance": the close() of this Facade that awaits the manager; under
\* closeAll() it is "closeAll" when the manager awaits app.delete() and
\* "closeAllIdle" when the manager had no app.  enablePooling stands for the
\* Facade's options.
NoFacade ==
  [ connectionFactory |-> 0, isInitialized |-> FALSE, services |-> NoServices,
    closing |-> "no", closeName |-> NoName, enablePooling |-> FALSE ]

\* What the latest call did: its name, the manager it ran on, the state it
\* found the manager in, whether it returned (ok) or threw, and the database
\* handle it returned (0: none).  facade is the Facade a registry call
\* returned (0: none).
NoCall ==
  [op |-> "none", f |-> 0, from |-> "none", ok |-> TRUE, handle |-> 0,
   facade |-> 0]

Call(op, f, from, ok, handle) ==
  [op |-> op, f |-> f, from |-> from, ok |-> ok, handle |-> handle,
   facade |-> 0]

CallReturning(op, f, from, facade) ==
  [op |-> op, f |-> f, from |-> from, ok |-> TRUE, handle |-> 0,
   facade |-> facade]

\* No closeAll() is pending.  A pending one holds the Facades it took from the
\* registry when it was called (snapshot) and those whose close() it still
\* awaits.
NoCloseAll == [active |-> FALSE, snapshot |-> {}, awaiting |-> {}]

\* The states of the manager: no handle yet (or closed), connected, or
\* holding a handle that is flagged as disconnected.
StateOf(c) ==
  IF c.db = 0 THEN "uninitialized"
  ELSE IF c.isConnected THEN "connected"
  ELSE "flagged"

\* guardEdgeRuntime.  The try block throws EdgeRuntimeError when the global
\* is present (reading an unreadable global throws too); the bare catch clause
\* around it swallows whatever was thrown.  The result is what the constructor
\* throws: "none" when it returns.
EdgeRuntimeTryBlock(runtime) ==
  IF runtime = "unreadable" THEN "AccessError"
  ELSE IF runtime = "present" THEN "EdgeRuntimeError"
  ELSE "none"

guardEdgeRuntime(runtime) ==
  LET caught == EdgeRuntimeTryBlock(runtime) IN
  IF caught # "none" THEN "none" ELSE "none"

\* updateActivity
updateActivity(c) ==
  [c EXCEPT !.lastActivity = now, !.operationCount = @ + 1]

\* admin.firestore(app): the Firestore service of an app, one per app.
FirestoreOf(app) == app

\* if (!admin.apps.length)
NoLiveAppAlways(apps) == TRUE

NoLiveApp(apps) == apps = {}

\* if (this.db && this.metrics.isConnected)
AlreadyConnected(c) == c.db # 0 /\ c.isConnected

\* initialize() on the fields c with admin.apps = apps: the new fields, the
\* new admin.apps, the apps created, and what the call returned or threw.
initialize(c, apps, created, fail) ==
  IF AlreadyConnected(c)
    THEN [cf |-> updateActivity(c), apps |-> apps, created |-> created,
          ok |-> TRUE, handle |-> c.db]
    ELSE
      LET fresh == NoLiveApp(apps) IN
      IF fresh /\ fail = "initializeApp"
        THEN [cf |-> c, apps |-> apps, created |-> created,
              ok |-> FALSE, handle |-> 0]
        ELSE
          LET app == IF fresh THEN created + 1 ELSE CHOOSE x \in apps : TRUE
              apps1 == IF fresh THEN apps \cup {app} ELSE apps
              created1 == IF fresh THEN created + 1 ELSE created
              c1 == [c EXCEPT !.app = app]
              c2 == [c1 EXCEPT !.db = FirestoreOf(app)]
              c3 == [c2 EXCEPT !.isConnected = TRUE,
                               !.lastActivity = now,
                               !.idleCheckInterval = (@ \/ c.enablePooling)]
          IN  IF fail = "firestore"
                THEN [cf |-> c1, apps |-> apps1, created |-> created1,
                      ok |-> FALSE, handle |-> 0]
                ELSE IF fail = "settings"
                  THEN [cf |-> c2, apps |-> apps1, created |-> created1,
                        ok |-> FALSE, handle |-> 0]
                  ELSE [cf |-> c3, apps |-> apps1, created |-> created1,
                        ok |-> TRUE, handle |-> c3.db]

\* if (!this.db || !this.metrics.isConnected)
NeedsInitializeOnlyWithoutHandle(c) == c.db = 0

NeedsInitialize(c) == c.db = 0 \/ ~c.isConnected

\* getFirestore()
getFirestore(c, apps, created, fail) ==
  IF NeedsInitialize(c)
    THEN initialize(c, apps, created, fail)
    ELSE [cf |-> updateActivity(c), apps |-> apps, created |-> created,
          ok |-> TRUE, handle |-> c.db]

\* if (idleTime > maxIdleTime)
IdleTooLongOrJustLongEnough(idleTime) == idleTime >= MaxIdleTime

IdleTooLong(idleTime) == idleTime > MaxIdleTime

\* checkIdleConnection.  metrics.idleTime, which it also records, is read by
\* getMetrics only and is not a field of the model.
checkIdleConnection(c) ==
  LET idleTime == now - c.lastActivity IN
  [c EXCEPT !.isConnected = IF IdleTooLong(idleTime) THEN FALSE ELSE @]

\* close(), up to the await of app.delete(): the timer is cleared.
closeBegin(c) == [c EXCEPT !.idleCheckInterval = FALSE]

\* close(), after the await: the fields are cleared if app.delete() resolved;
\* the catch clause only logs.
closeFinish(c, deleted) ==
  IF deleted
    THEN [c EXCEPT !.app = 0, !.db = 0, !.isConnected = FALSE]
    ELSE c

ConnInit ==
  /\ now = 0
  /\ instance = 0
  /\ factoriesCreated = 0
  /\ factories = [f \in FactoryIds |-> NoFactory]
  /\ adminApps = {}
  /\ appsCreated = 0
  /\ facadesCreated = 0
  /\ facades = [g \in FacadeIds |-> NoFacade]
  /\ instances = [n \in Names |-> 0]
  /\ defaultInstanceName = "default"
  /\ pendingCloses = {}
  /\ closeAll = NoCloseAll
  /\ lastCall = NoCall

\* A manager that reset() dropped, that no Facade holds and that has no
\* close() pending can no longer be reached by any call: its fields are
\* forgotten, as the garbage collector forgets the object.
Reachable(f, current, pending) ==
  \/ f = current
  \/ f \in pending
  \/ \E g \in 1..facadesCreated : facades[g].connectionFactory = f

Collect(fs, current, pending) ==
  [f \in FactoryIds |-> IF Reachable(f, current, pending) THEN fs[f] ELSE NoFactory]

RegisteredNames == {n \in Names : instances[n] # 0}

\* if (this.instances.has(name))
AlreadyRegisteredNever(map, name) == FALSE

AlreadyRegistered(map, name) == map[name] # 0

\* DatabaseManager.createInstance(name, config).  A registered name returns the
\* registered Facade.  Otherwise: new FireStoreDBAdapter, whose constructor
\* calls ConnectionFactory.getInstance(options); runtime is the state of the
\* EdgeRuntime global at that moment.
CreateInstance(name, pooling, runtime) ==
  /\ ~AlreadyRegistered(instances, name) =>
       /\ facadesCreated < MaxFacades
       /\ instance = 0 => factoriesCreated < MaxFactories
  /\ IF AlreadyRegistered(instances, name)
       THEN /\ lastCall' = CallReturning("createInstance",
                                         facades[instances[name]].connectionFactory,
                                         "registered", instances[name])
            /\ UNCHANGED <<instance, factoriesCreated, factories,
                           facadesCreated, facades, instances,
                           defaultInstanceName>>
       ELSE
         LET g == facadesCreated + 1
             f == IF instance = 0 THEN factoriesCreated + 1 ELSE instance
             error == IF instance = 0 THEN guardEdgeRuntime(runtime) ELSE "none"
             registered == [instances EXCEPT ![name] = g]
         IN  IF error # "none"
               THEN /\ lastCall' = Call("createInstance", 0, "none", FALSE, 0)
                    /\ UNCHANGED <<instance, factoriesCreated, factories,
                                   facadesCreated, facades, instances,
                                   defaultInstanceName>>
               ELSE /\ instance' = f
                    /\ factoriesCreated' =
                         IF instance = 0 THEN factoriesCreated + 1 ELSE factoriesCreated
                    /\ factories' =
                         IF instance = 0
                           THEN [factories EXCEPT ![f] = NewFactory(pooling)]
                           ELSE factories
                    /\ facadesCreated' = g
                    /\ facades' = [facades EXCEPT ![g] =
                                     [NoFacade EXCEPT !.connectionFactory = f,
                                                      !.enablePooling = pooling]]
                    /\ instances' = registered
                    /\ defaultInstanceName' =
                         IF Cardinality({n \in Names : registered[n] # 0}) = 1
                           THEN name ELSE defaultInstanceName
                    /\ lastCall' = CallReturning("createInstance", f, "none", g)
  /\ UNCHANGED <<closeAll, now, adminApps, appsCreated, pendingCloses>>

\* DatabaseManager.setDefault(name): throws for a name that is not registered.
SetDefault(name) ==
  /\ IF instances[name] # 0
       THEN /\ defaultInstanceName' = name
            /\ lastCall' = Call("setDefault", 0, "none", TRUE, 0)
       ELSE /\ lastCall' = Call("setDefault", 0, "none", FALSE, 0)
            /\ UNCHANGED defaultInstanceName
  /\ UNCHANGED <<closeAll, now, instance, factoriesCreated, factories,
                 adminApps, appsCreated, facadesCreated, facades, instances,
                 pendingCloses>>

\* ConnectionFactory.initialize() called on the current manager.
Initialize(f, fail) ==
  /\ f = instance /\ f # 0
  /\ factories[f].operationCount < MaxOps
  /\ appsCreated < MaxApps
  /\ LET r == initialize(factories[f], adminApps, appsCreated, fail) IN
       /\ factories' = [factories EXCEPT ![f] = r.cf]
       /\ adminApps' = r.apps
       /\ appsCreated' = r.created
       /\ lastCall' = Call("initialize", f, StateOf(factories[f]), r.ok, r.handle)
  /\ UNCHANGED <<closeAll, now, instance, factoriesCreated, facadesCreated,
                 facades, instances, defaultInstanceName, pendingCloses>>

\* ConnectionFactory.getFirestore() called on the current manager.
GetFirestore(f, fail) ==
  /\ f = instance /\ f # 0
  /\ factories[f].operationCount < MaxOps
  /\ appsCreated < MaxApps
  /\ LET r == getFirestore(factories[f], adminApps, appsCreated, fail) IN
       /\ factories' = [factories EXCEPT ![f] = r.cf]
       /\ adminApps' = r.apps
       /\ appsCreated' = r.created
       /\ lastCall' = Call("getFirestore", f, StateOf(factories[f]), r.ok, r.handle)
  /\ UNCHANGED <<closeAll, now, instance, factoriesCreated, facadesCreated,
                 facades, instances, defaultInstanceName, pendingCloses>>

\* The setInterval callback of startIdleMonitoring fires.
IdleTick(f) ==
  /\ f \in 1..factoriesCreated
  /\ factories[f].idleCheckInterval
  /\ factories' = [factories EXCEPT ![f] = checkIdleConnection(factories[f])]
  /\ UNCHANGED <<closeAll, now, instance, factoriesCreated, adminApps,
                 appsCreated, facadesCreated, facades, instances,
                 defaultInstanceName, pendingCloses, lastCall>>

\* Time passes.
Tick ==
  /\ now < MaxTime
  /\ now' = now + 1
  /\ UNCHANGED <<closeAll, instance, factoriesCreated, factories, adminApps,
                 appsCreated, facadesCreated, facades, instances,
                 defaultInstanceName, pendingCloses, lastCall>>


\* One public operation of a Facade (create, read, atomicIncrement, ...):
\* get<Family>Service, which on the first use of the family runs getDb
\* (ensureInitialized, then getFirestore) and caches the service built on the
\* handle; then the service's call of the underlying client, which succeeds
\* (callOk) or fails.
FacadeOperation(g, fam, fail, callOk) ==
  /\ g \in 1..facadesCreated
  /\ LET a == facades[g]
         f == a.connectionFactory
         c == factories[f]
         r1 == IF a.isInitialized
                 THEN [cf |-> c, apps |-> adminApps, created |-> appsCreated,
                       ok |-> TRUE, handle |-> 0]
                 ELSE initialize(c, adminApps, appsCreated, fail)
         r2 == getFirestore(r1.cf, r1.apps, r1.created, fail)
     IN  /\ c.operationCount < MaxOps
         /\ appsCreated < MaxApps
         /\ IF a.services[fam] # 0
              THEN /\ lastCall' = Call("operation", f, StateOf(c), callOk,
                                       a.services[fam])
                   /\ UNCHANGED <<factories, adminApps, appsCreated, facades>>
              ELSE IF ~r1.ok
                THEN /\ factories' = [factories EXCEPT ![f] = r1.cf]
                     /\ adminApps' = r1.apps
                     /\ appsCreated' = r1.created
                     /\ lastCall' = Call("operation", f, StateOf(c), FALSE, 0)
                     /\ UNCHANGED facades
                ELSE IF ~r2.ok
                  THEN /\ factories' = [factories EXCEPT ![f] = r2.cf]
                       /\ adminApps' = r2.apps
                       /\ appsCreated' = r2.created
                       /\ facades' = [facades EXCEPT ![g].isInitialized = TRUE]
                       /\ lastCall' = Call("operation", f, StateOf(c), FALSE, 0)
                  ELSE /\ factories' = [factories EXCEPT ![f] = r2.cf]
                       /\ adminApps' = r2.apps
                       /\ appsCreated' = r2.created
                       /\ facades' = [facades EXCEPT ![g].isInitialized = TRUE,
                                                     ![g].services[fam] = r2.handle]
                       /\ lastCall' = Call("operation", f, StateOf(c), callOk,
                                           r2.handle)
  /\ UNCHANGED <<closeAll, now, instance, factoriesCreated, facadesCreated,
                 instances, defaultInstanceName, pendingCloses>>

\* The registry after closeInstance(name) removed its entry: the default moves
\* to the first remaining key (Map order is insertion order, which is the
\* order in which the registered Facades were constructed).
\* remaining[0] || "default": an absent first key and the empty name are
\* both falsy.
FirstKey(map) ==
  LET keys == {n \in Names : map[n] # 0}
      first == CHOOSE n \in keys : \A m \in keys : map[n] <= map[m]
  IN  IF keys = {} \/ first = "" THEN "default" ELSE first

DefaultAfterDelete(name, map) ==
  IF defaultInstanceName = name THEN FirstKey(map) ELSE defaultInstanceName

\* The Facade's fields after the await of connectionFactory.close().
FacadeClosed(a) ==
  [a EXCEPT !.isInitialized = FALSE, !.services = NoServices,
            !.closing = "no", !.closeName = NoName]

\* Facade.close(), called directly (name = NoName) or by closeInstance(name), up to
\* the await of app.delete(), which takes the app out of admin.apps.  A manager
\* without an app has nothing to await and the whole call completes.
FacadeCloseBegin(g, name) ==
  /\ g \in 1..facadesCreated
  /\ facades[g].closing = "no"
  /\ name # NoName => (name \in Names /\ instances[name] = g)
  /\ LET f == facades[g].connectionFactory
         c == factories[f]
     IN  /\ factories' = [factories EXCEPT ![f] = closeBegin(c)]
         /\ adminApps' = adminApps \ {c.app}
         /\ IF c.app # 0
              THEN /\ facades' = [facades EXCEPT
                                    ![g].closing = IF name = NoName THEN "close"
                                                   ELSE "closeInstance",
                                    ![g].closeName = name]
                   /\ UNCHANGED <<instances, defaultInstanceName, lastCall>>
              ELSE /\ facades' = [facades EXCEPT ![g] = FacadeClosed(facades[g])]
                   /\ instances' = IF name = NoName THEN instances
                                   ELSE [instances EXCEPT ![name] = 0]
                   /\ defaultInstanceName' =
                        IF name = NoName THEN defaultInstanceName
                        ELSE DefaultAfterDelete(name, [instances EXCEPT ![name] = 0])
                   /\ lastCall' = Call("close", f, StateOf(c), TRUE, 0)
  /\ UNCHANGED <<closeAll, now, instance, factoriesCreated, appsCreated,
                 facadesCreated, pendingCloses>>

\* app.delete() settles (deleted: it resolved): the rest of
\* ConnectionFactory.close(), of Facade.close() and of closeInstance; a close
\* made by closeAll() settles one of the promises closeAll() awaits.
FacadeCloseFinish(g, deleted) ==
  /\ g \in 1..facadesCreated
  /\ facades[g].closing # "no"
  /\ LET f == facades[g].connectionFactory
         name == facades[g].closeName
     IN  /\ factories' =
              IF facades[g].closing = "closeAllIdle" THEN factories
              ELSE [factories EXCEPT ![f] = closeFinish(factories[f], deleted)]
         /\ facades' = [facades EXCEPT ![g] = FacadeClosed(facades[g])]
         /\ instances' = IF facades[g].closing = "closeInstance"
                           THEN [instances EXCEPT ![name] = 0]
                           ELSE instances
         /\ defaultInstanceName' =
              IF facades[g].closing = "closeInstance"
                THEN DefaultAfterDelete(name, [instances EXCEPT ![name] = 0])
                ELSE defaultInstanceName
         /\ closeAll' =
              IF facades[g].closing \in {"closeAll", "closeAllIdle"}
                THEN [closeAll EXCEPT !.awaiting = @ \ {g}]
                ELSE closeAll
         /\ lastCall' = Call("close", f, StateOf(factories[f]), TRUE, 0)
  /\ UNCHANGED <<now, instance, factoriesCreated, adminApps,
                 appsCreated, facadesCreated, pendingCloses>>

\* DatabaseManager.closeAll(), up to the await of Promise.all: the close() of
\* every registered Facade is started, each running up to its own await.
CloseAllBegin ==
  /\ ~closeAll.active
  /\ LET entries == {instances[n] : n \in RegisteredNames}
         managers == {facades[g].connectionFactory : g \in entries}
     IN  /\ \A g \in entries : facades[g].closing = "no"
         /\ facades' =
              [g \in FacadeIds |->
                 IF g \in entries
                   THEN [facades[g] EXCEPT !.closing =
                           IF factories[facades[g].connectionFactory].app # 0
                             THEN "closeAll" ELSE "closeAllIdle"]
                   ELSE facades[g]]
         /\ factories' =
              [f \in FactoryIds |->
                 IF f \in managers THEN closeBegin(factories[f]) ELSE factories[f]]
         /\ adminApps' = adminApps \ {factories[f].app : f \in managers}
         /\ closeAll' = [active |-> TRUE, snapshot |-> entries, awaiting |-> entries]
  /\ UNCHANGED <<now, instance, factoriesCreated, appsCreated, facadesCreated,
                 instances, defaultInstanceName, pendingCloses, lastCall>>

\* closeAll() after the await of Promise.all: the registry is cleared.
CloseAllFinish ==
  /\ closeAll.active
  /\ closeAll.awaiting = {}
  /\ instances' = [n \in Names |-> 0]
  /\ defaultInstanceName' = "default"
  /\ closeAll' = NoCloseAll
  /\ lastCall' = Call("closeAll", 0, "none", TRUE, 0)
  /\ UNCHANGED <<now, instance, factoriesCreated, factories, adminApps,
                 appsCreated, facadesCreated, facades, pendingCloses>>

\* if (!ConnectionFactory.instance)
NoInstanceWhatever(current) == TRUE

NoInstance(current) == current = 0

\* ConnectionFactory.getInstance(options), called directly: the manager there
\* is (from: its state), or a new one constructed with the options (from:
\* "none").
GetInstance(pooling, runtime) ==
  /\ NoInstance(instance) => factoriesCreated < MaxFactories
  /\ IF ~NoInstance(instance)
       THEN /\ lastCall' = Call("getInstance", instance,
                                StateOf(factories[instance]), TRUE, 0)
            /\ UNCHANGED <<instance, factoriesCreated, factories>>
       ELSE
         LET f == factoriesCreated + 1
             error == guardEdgeRuntime(runtime)
         IN  IF error # "none"
               THEN /\ lastCall' = Call("getInstance", 0, "none", FALSE, 0)
                    /\ UNCHANGED <<instance, factoriesCreated, factories>>
               ELSE /\ instance' = f
                    /\ factoriesCreated' = f
                    /\ factories' = [factories EXCEPT ![f] = NewFactory(pooling)]
                    /\ lastCall' = Call("getInstance", f, "none", TRUE, 0)
  /\ UNCHANGED <<closeAll, now, adminApps, appsCreated, facadesCreated,
                 facades, instances, defaultInstanceName, pendingCloses>>

\* ConnectionFactory.close() called on a manager, up to the await of
\* app.delete(), which takes the app out of admin.apps.  A manager without an
\* app has nothing to await and the call returns.
CloseBegin(f) ==
  /\ f = instance /\ f # 0
  /\ f \notin pendingCloses
  /\ LET c == factories[f] IN
       /\ factories' = [factories EXCEPT ![f] = closeBegin(c)]
       /\ adminApps' = adminApps \ {c.app}
       /\ pendingCloses' = IF c.app # 0 THEN pendingCloses \cup {f}
                           ELSE pendingCloses
       /\ lastCall' = IF c.app # 0 THEN lastCall
                      ELSE Call("close", f, StateOf(c), TRUE, 0)
  /\ UNCHANGED <<closeAll, now, instance, factoriesCreated, appsCreated,
                 facadesCreated, facades, instances, defaultInstanceName>>

\* app.delete() settles (deleted: it resolved) and close() returns.
CloseFinish(f, deleted) ==
  /\ f \in pendingCloses
  /\ factories' = Collect([factories EXCEPT ![f] = closeFinish(factories[f], deleted)],
                          instance, pendingCloses \ {f})
  /\ pendingCloses' = pendingCloses \ {f}
  /\ lastCall' = Call("close", f, StateOf(factories[f]), TRUE, 0)
  /\ UNCHANGED <<closeAll, now, instance, factoriesCreated, adminApps,
                 appsCreated, facadesCreated, facades, instances,
                 defaultInstanceName>>

\* ConnectionFactory.reset(): instance.close() is started and not awaited, and
\* the singleton is dropped.
Reset ==
  /\ instance # 0
  /\ instance \notin pendingCloses
  /\ LET c == factories[instance]
         pending == IF c.app # 0 THEN pendingCloses \cup {instance}
                    ELSE pendingCloses
     IN  /\ factories' = Collect([factories EXCEPT ![instance] = closeBegin(c)],
                                 0, pending)
         /\ adminApps' = adminApps \ {c.app}
         /\ pendingCloses' = pending
  /\ instance' = 0
  /\ lastCall' = Call("reset", instance, StateOf(factories[instance]), TRUE, 0)
  /\ UNCHANGED <<closeAll, now, factoriesCreated, appsCreated, facadesCreated,
                 facades, instances, defaultInstanceName>>

(***************************************************************************)
(* Part 3: the services over the document store                            *)
(***************************************************************************)

\* documents of the one collection modelled
MaxDocs == 2
\* scalar field values are 1..MaxValue
MaxValue == 2
\* writes the store accepts in one behaviour; a write's server timestamp
\* is its number
MaxWrites == 3

DocIds == 1..MaxDocs

\* The key of a JavaScript object is the sequence of the segments that "."
\* separates in it: "k" is <<"k">>, "k.m" is <<"k", "m">>.
Keys == {<<"k">>, <<"m">>, <<"k", "m">>}

\* An object with scalar values, as a caller passes it for data, refs or
\* updates: the value of each key, 0 for a key the object does not have.
NoObject == [key \in Keys |-> 0]

KeysOf(obj) == {key \in Keys : obj[key] # 0}

\* A scalar value: n > 0 is the number n, and -n is the string of its digits.
\* Data values are numbers here and ref values strings.
DataObjects ==
  { [NoObject EXCEPT ![<<"k">>] = 1],
    [NoObject EXCEPT ![<<"k">>] = 1, ![<<"m">>] = 1],
    [NoObject EXCEPT ![<<"k", "m">>] = 1] }

RefObjects ==
  { NoObject,
    [NoObject EXCEPT ![<<"k">>] = 0 - 1],
    [NoObject EXCEPT ![<<"k", "m">>] = 0 - 1] }

\* refs of one key and of two
RelationRefObjects ==
  { [NoObject EXCEPT ![<<"k">>] = 0 - 1],
    [NoObject EXCEPT ![<<"m">>] = 0 - 1],
    [NoObject EXCEPT ![<<"k">>] = 0 - 1, ![<<"m">>] = 0 - 1] }

RefUpdateObjects ==
  { [NoObject EXCEPT ![<<"k">>] = 0 - MaxValue],
    [NoObject EXCEPT ![<<"m">>] = 0 - MaxValue] }

UpdateObjects ==
  { NoObject,
    [NoObject EXCEPT ![<<"k">>] = MaxValue],
    [NoObject EXCEPT ![<<"m">>] = MaxValue],
    [NoObject EXCEPT ![<<"k", "m">>] = MaxValue] }

\* String(value): of a scalar, and of a map ("[object Object]")
StringOf(v) == IF v > 0 THEN 0 - v ELSE v

ObjectString == 0 - (MaxValue + 1)

\* A field of a document is addressed by the names on the way to it, each name
\* a key.  { data: { "k.m": 1 } } holds the field <<<<"data">>, <<"k", "m">>>>.
LiteralPath(prefix, key) == <<<<prefix>>, key>>

\* The field path string `${prefix}.${key}` as the client reads it: split at
\* every ".", each piece one name.
FieldPath(prefix, key) == <<<<prefix>>>> \o [i \in 1..Len(key) |-> <<key[i]>>]

\* a field path string that is a key alone
TopLevelPath(key) == [i \in 1..Len(key) |-> <<key[i]>>]

IsPrefix(p, q) == Len(p) <= Len(q) /\ \A i \in 1..Len(p) : p[i] = q[i]

Related(p, q) == IsPrefix(p, q) \/ IsPrefix(q, p)

\* the fields an object literal { [prefix]: obj } holds
ObjectFields(prefix, obj) ==
  {[path |-> LiteralPath(prefix, key), value |-> obj[key]] : key \in KeysOf(obj)}

\* the field writes update() makes for `${prefix}.${key}`: value entries
PathWrites(prefix, obj) ==
  {[path |-> FieldPath(prefix, key), value |-> obj[key]] : key \in KeysOf(obj)}

\* A document: its scalar fields under data and refs (a map is the set of the
\* fields below it), and the two timestamps (0: the field is missing).
NoDoc == [exists |-> FALSE, fields |-> {}, createdAt |-> 0, updatedAt |-> 0]

\* ref.set(docData): the document is replaced.
DocSet(fields, createdAt, updatedAt) ==
  [exists |-> TRUE, fields |-> fields, createdAt |-> createdAt,
   updatedAt |-> updatedAt]

\* Writing a field replaces what was at it and below it, and turns a scalar
\* above it into a map.
WriteFields(fields, written) ==
  {l \in fields : \A w \in written : ~Related(w.path, l.path)} \cup written

\* ref.set(docData, { merge: true }): the fields named are written, the
\* others kept; a missing document is created.
DocSetMerge(doc, fields, updatedAt) ==
  [exists |-> TRUE, fields |-> WriteFields(doc.fields, fields),
   createdAt |-> doc.createdAt, updatedAt |-> updatedAt]

\* ref.update(updates) on an existing document.
DocUpdate(doc, written, updatedAt) ==
  [doc EXCEPT !.fields = WriteFields(doc.fields, written),
              !.updatedAt = updatedAt]

\* new DocumentNotFoundError(collection, id)
DocumentNotFoundError ==
  [ok |-> FALSE, code |-> "DOCUMENT_NOT_FOUND", status |-> "", id |-> 1]

\* retryWithBackoff around an operation that throws error at every attempt,
\* from attempt a on: what it throws, the attempts made and the sleeps (one
\* after every attempt but the last).
RECURSIVE retryRejected(_, _, _, _)
retryRejected(config, name, error, a) ==
  IF BudgetExhausted(a, config)
    THEN [thrown |-> RetryExhaustedError(name, config.maxRetries + 1, error),
          attempts |-> a + 1, sleeps |-> a]
    ELSE IF ~isRetryableError(error)
      THEN [thrown |-> Rethrow(error), attempts |-> a + 1, sleeps |-> a]
      ELSE retryRejected(config, name, error, a + 1)

\* withRetry around such an operation
withRetryRejected(enabled, configured, config, name, error) ==
  IF Passthrough(enabled, configured)
    THEN [thrown |-> Rethrow(error), attempts |-> 1, sleeps |-> 0]
    ELSE retryRejected(config, name, error, 0)

\* the retry settings a service is constructed with
ServiceConfigs ==
  {config \in RetryConfigs :
     /\ config.initialDelay = 1 /\ config.maxDelay = 50
     /\ config.backoffMultiplier = 1}

VARIABLES
  store,      \* the documents of the collection
  writes,     \* writes the store accepted so far
  lastOp      \* the latest service call: what it returned or threw, the
              \* runs of its body and the sleeps between them

storeVars == <<store, writes, lastOp>>

NoOp ==
  [op |-> "none", id |-> 0, thrown |-> NoThrow, gets |-> 0, updates |-> 0,
   sleeps |-> 0]

\* a call that returned after gets reads and updates update() calls
Returned(op, id, gets, updates) ==
  [op |-> op, id |-> id, thrown |-> NoThrow, gets |-> gets, updates |-> updates,
   sleeps |-> 0]

\* a call that threw
Threw(op, id, rejected) ==
  [op |-> op, id |-> id, thrown |-> rejected.thrown,
   gets |-> rejected.attempts, updates |-> 0, sleeps |-> rejected.sleeps]

StoreInit ==
  /\ store = [id \in DocIds |-> NoDoc]
  /\ writes = 0
  /\ lastOp = NoOp

\* serverTimestamp() of the next write
ServerTimestamp == writes + 1

\* ref.add(): an id no document has
FreeIds == {id \in DocIds : ~store[id].exists}

AutoId == CHOOSE id \in FreeIds : TRUE

\* the document createRelational writes
RelationalDoc(data, refs) ==
  DocSet(ObjectFields("data", data) \cup ObjectFields("refs", refs),
         ServerTimestamp, ServerTimestamp)

\* RelationalCrudService.createRelational(collection, data, refs, docId);
\* docId 0 is no docId.
CreateRelational(data, refs, docId) ==
  /\ writes < MaxWrites
  /\ docId = 0 => FreeIds # {}
  /\ LET id == IF docId # 0 THEN docId ELSE AutoId IN
       /\ store' = [store EXCEPT ![id] = RelationalDoc(data, refs)]
       /\ lastOp' = Returned("createRelational", id, 0, 0)
  /\ writes' = writes + 1

\* RelationalCrudService.setRelational(collection, id, data, refs, merge)
SetRelational(id, data, refs, merge) ==
  /\ writes < MaxWrites
  /\ LET fields == ObjectFields("data", data) \cup ObjectFields("refs", refs) IN
       store' = [store EXCEPT ![id] =
                   IF merge THEN DocSetMerge(store[id], fields, ServerTimestamp)
                   ELSE DocSet(fields, 0, ServerTimestamp)]
  /\ writes' = writes + 1
  /\ lastOp' = Returned("setRelational", id, 0, 0)

\* An update of a service: the existence read, DocumentNotFoundError for a
\* missing document, else ref.update of the field writes.
UpdateWith(op, id, fieldWrites, enabled, configured, config) ==
  IF ~store[id].exists
    THEN /\ lastOp' = Threw(op, id,
                            withRetryRejected(enabled, configured, config, op,
                                              DocumentNotFoundError))
         /\ UNCHANGED <<store, writes>>
    ELSE /\ writes < MaxWrites
         /\ store' = [store EXCEPT ![id] =
                        DocUpdate(store[id], fieldWrites, ServerTimestamp)]
         /\ writes' = writes + 1
         /\ lastOp' = Returned(op, id, 1, 1)

\* SimpleCrudService.update(collection, id, data)
Update(id, data, enabled, configured, config) ==
  UpdateWith("update", id,
             {[path |-> TopLevelPath(key), value |-> data[key]] :
                key \in KeysOf(data)},
             enabled, configured, config)

\* RelationalCrudService.updateData(collection, id, updates)
UpdateData(id, updates, enabled, configured, config) ==
  UpdateWith("updateData", id, PathWrites("data", updates),
             enabled, configured, config)

\* RelationalCrudService.updateRefs(collection, id, refs)
UpdateRefs(id, refs, enabled, configured, config) ==
  UpdateWith("updateRefs", id, PathWrites("refs", refs),
             enabled, configured, config)

\* RelationalCrudService.updateRelational(collection, id, dataUpdates, refUpdates)
UpdateRelational(id, dataUpdates, refUpdates, enabled, configured, config) ==
  UpdateWith("updateRelational", id,
             PathWrites("data", dataUpdates) \cup PathWrites("refs", refUpdates),
             enabled, configured, config)

\* SimpleCrudService.delete(collection, id)
Delete(id) ==
  /\ store' = [store EXCEPT ![id] = NoDoc]
  /\ lastOp' = Returned("delete", id, 0, 0)
  /\ UNCHANGED writes

\* MigrationService.convertToRelational(collection, docId, refKeys): the
\* top-level fields named in refKeys go under refs as strings and the others
\* under data; createdAt is kept if the document has one.
ConvertToRelational(docId, refKeys, enabled, configured, config) ==
  IF ~store[docId].exists
    THEN /\ lastOp' = Threw("convertToRelational", docId,
                            withRetryRejected(enabled, configured, config,
                                              "convertToRelational",
                                              DocumentNotFoundError))
         /\ UNCHANGED <<store, writes>>
    ELSE /\ writes < MaxWrites
         /\ LET doc == store[docId]
                allData == {l.path[1] : l \in doc.fields}
                refs ==
                  {[path |-> LiteralPath("refs", key),
                    value |-> IF \E l \in doc.fields : l.path = <<key>>
                                THEN StringOf((CHOOSE l \in doc.fields :
                                                 l.path = <<key>>).value)
                                ELSE ObjectString] :
                     key \in allData \cap refKeys}
                data ==
                  {[path |-> <<<<"data">>>> \o l.path, value |-> l.value] :
                     l \in {x \in doc.fields : x.path[1] \notin refKeys}}
                createdAt == IF doc.createdAt # 0 THEN doc.createdAt
                             ELSE ServerTimestamp
            IN  store' = [store EXCEPT ![docId] =
                            DocSet(data \cup refs, createdAt, ServerTimestamp)]
         /\ writes' = writes + 1
         /\ lastOp' = Returned("convertToRelational", docId, 1, 0)

\* callers of findOrCreateWithRefs that run at the same time
MaxCallers == 2

CallerIds == 1..MaxCallers

VARIABLES
  callRefs,       \* the refs the toggleRelation / findOrCreateWithRefs calls pass
  toggleActions,  \* the actions the toggleRelation calls returned, in order
  callers         \* the findOrCreateWithRefs call of each caller

relationVars == <<callRefs, toggleActions, callers>>

\* A caller: where its findOrCreateWithRefs stands ("idle" before the call,
\* "create" and "read" at the awaits, "done", "failed"), its data, the id it
\* found or created, and the created flag it returned.
NoCaller == [pc |-> "idle", data |-> NoObject, id |-> 0, created |-> FALSE]

RelationInit ==
  /\ callRefs = [chosen |-> FALSE, refs |-> NoObject]
  /\ toggleActions = <<>>
  /\ callers = [c \in CallerIds |-> NoCaller]

\* the calls pass identical refs
SameRefs(refs) == ~callRefs.chosen \/ callRefs.refs = refs

\* a document whose refs, as createRelational stored them, hold the entries
\* of refs
HasRefs(doc, refs) ==
  /\ doc.exists
  /\ \A key \in KeysOf(refs) :
       [path |-> LiteralPath("refs", key), value |-> refs[key]] \in doc.fields

\* ref.where(`refs.${key}`, "==", value) for every entry of refs
MatchesQuery(doc, refs) ==
  /\ doc.exists
  /\ \A key \in KeysOf(refs) :
       [path |-> FieldPath("refs", key), value |-> refs[key]] \in doc.fields

\* the documents the query of findOneByRefs matches; limit(1) returns one
QueryByRefs(refs) == {id \in DocIds : MatchesQuery(store[id], refs)}

\* RelationalCrudService.toggleRelation(collection, data, refs) with no other
\* call between its awaits: findOneByRefs, then delete of the document found
\* or createRelational.
ToggleRelation(data, refs) ==
  /\ SameRefs(refs)
  /\ callRefs' = [chosen |-> TRUE, refs |-> refs]
  /\ IF QueryByRefs(refs) # {}
       THEN \E id \in QueryByRefs(refs) :
              /\ store' = [store EXCEPT ![id] = NoDoc]
              /\ toggleActions' = Append(toggleActions, "deleted")
              /\ lastOp' = Returned("toggleRelation", id, 1, 0)
              /\ UNCHANGED writes
       ELSE /\ writes < MaxWrites
            /\ FreeIds # {}
            /\ store' = [store EXCEPT ![AutoId] = RelationalDoc(data, refs)]
            /\ writes' = writes + 1
            /\ toggleActions' = Append(toggleActions, "created")
            /\ lastOp' = Returned("toggleRelation", AutoId, 1, 0)
  /\ UNCHANGED callers

\* findOrCreateWithRefs(collection, data, refs) up to its first await:
\* findOneByRefs.  A document found is returned with created false.
FindOrCreateFind(c, data, refs) ==
  /\ callers[c].pc = "idle"
  /\ SameRefs(refs)
  /\ callRefs' = [chosen |-> TRUE, refs |-> refs]
  /\ IF QueryByRefs(refs) # {}
       THEN \E id \in QueryByRefs(refs) :
              /\ callers' = [callers EXCEPT ![c] =
                               [pc |-> "done", data |-> data, id |-> id,
                                created |-> FALSE]]
              /\ lastOp' = Returned("findOrCreateWithRefs", id, 1, 0)
       ELSE /\ callers' = [callers EXCEPT ![c].pc = "create", ![c].data = data]
            /\ UNCHANGED lastOp
  /\ UNCHANGED <<store, writes, toggleActions>>

\* ... its createRelational
FindOrCreateCreate(c) ==
  /\ callers[c].pc = "create"
  /\ writes < MaxWrites
  /\ FreeIds # {}
  /\ store' = [store EXCEPT ![AutoId] = RelationalDoc(callers[c].data, callRefs.refs)]
  /\ writes' = writes + 1
  /\ callers' = [callers EXCEPT ![c].pc = "read", ![c].id = AutoId]
  /\ UNCHANGED <<lastOp, callRefs, toggleActions>>

\* ... its readRelational of the new document, and the return
FindOrCreateRead(c) ==
  /\ callers[c].pc = "read"
  /\ IF store[callers[c].id].exists
       THEN /\ callers' = [callers EXCEPT ![c].pc = "done", ![c].created = TRUE]
            /\ lastOp' = Returned("findOrCreateWithRefs", callers[c].id, 2, 0)
       ELSE /\ callers' = [callers EXCEPT ![c].pc = "failed"]
            /\ lastOp' = [Returned("findOrCreateWithRefs", callers[c].id, 2, 0)
                            EXCEPT !.thrown = [kind |-> "Error"]]
  /\ UNCHANGED <<store, writes, callRefs, toggleActions>>

(***************************************************************************)
(* Part 4: batch writes and transactions                                   *)
(***************************************************************************)

\* items of one batch call
MaxItems == 3
\* writes of one chunk (MAX_BATCH_SIZE, 500 in the source)
MaxBatchSize == 2
\* commits the batch calls make in all
MaxBatchWrites == 2

\* The id of an item; 0 is an id validateId rejects and, in batchCreate, a
\* document validateAndSanitize rejects.
ItemIds == 0..MaxDocs

\* the inputs of a call: up to MaxItems items, each id at most once
BatchInputs ==
  {items \in UNION {[1..n -> ItemIds] : n \in 0..MaxItems} :
     \A i, j \in 1..Len(items) : items[i] = items[j] => i = j}

\* the retry configurations of the batch service
BatchConfigs == {config \in ServiceConfigs : config.maxRetries <= 1}

MaxChunks == (MaxItems + MaxBatchSize - 1) \div MaxBatchSize

\* whether batch.commit() of each chunk gets through to the store
CommitOutcomes == [1..MaxChunks -> BOOLEAN]

\* the data of the items of a call
BatchData == {[NoObject EXCEPT ![<<"k">>] = 1]}

BatchOps == {"batchCreate", "batchSet", "batchUpdate", "batchDelete", "batchIncrement"}

\* chunkArray
chunkArray(array, size) ==
  [i \in 1..((Len(array) + size - 1) \div size) |->
     SubSeq(array, (i - 1) * size + 1, Min(i * size, Len(array)))]

\* validateId
ValidId(id) == id # 0

Range(s) == {s[i] : i \in 1..Len(s)}

\* if (!failed.find((f) => f.id === item.id)) failed.push(...), for each item
RECURSIVE PushMissing(_, _)
PushMissing(failed, ids) ==
  IF ids = <<>> THEN failed
  ELSE PushMissing(IF Head(ids) \in Range(failed) THEN failed
                   ELSE Append(failed, Head(ids)),
                   Tail(ids))

RECURSIVE SortedSeq(_)
SortedSeq(S) ==
  IF S = {} THEN <<>>
  ELSE LET m == CHOOSE x \in S : \A y \in S : x <= y
       IN  <<m>> \o SortedSeq(S \ {m})

\* the fields of { ...sanitized } in set()
TopLevelFields(obj) == {[path |-> <<key>>, value |-> obj[key]] : key \in KeysOf(obj)}

\* the field writes of { ...sanitized } in update()
TopLevelWrites(obj) ==
  {[path |-> TopLevelPath(key), value |-> obj[key]] : key \in KeysOf(obj)}

\* the number at a field path, 0 if there is none
NumberAt(doc, path) ==
  IF \E l \in doc.fields : l.path = path /\ l.value > 0
    THEN (CHOOSE l \in doc.fields : l.path = path).value
    ELSE 0

\* the field batchIncrement and atomicTransfer work on
CounterField == <<"k">>

\* One write of a batch as the store applies it at commit time ts.
BatchWrite(op, doc, data, merge, ts) ==
  CASE op = "batchCreate" -> DocSet(TopLevelFields(data), ts, 0)
    [] op = "batchSet" ->
         IF merge THEN DocSetMerge(doc, TopLevelFields(data), ts)
         ELSE DocSet(TopLevelFields(data), 0, ts)
    [] op = "batchUpdate" -> DocUpdate(doc, TopLevelWrites(data), ts)
    [] op = "batchIncrement" ->
         DocUpdate(doc,
                   {[path |-> TopLevelPath(CounterField),
                     value |-> NumberAt(doc, TopLevelPath(CounterField)) + 1]},
                   ts)
    [] op = "batchDelete" -> NoDoc

RECURSIVE ApplyBatch(_, _, _, _, _, _)
ApplyBatch(op, docs, ids, data, merge, ts) ==
  IF ids = <<>> THEN docs
  ELSE ApplyBatch(op,
                  [docs EXCEPT ![Head(ids)] = BatchWrite(op, @, data, merge, ts)],
                  Tail(ids), data, merge, ts)

\* batch.commit(): all the writes or none; an update of a missing document
\* fails the commit.
CommitSucceeds(op, docs, ids, delivered) ==
  /\ delivered
  /\ op \in {"batchUpdate", "batchIncrement"} => \A id \in Range(ids) : docs[id].exists

\* The loop over the chunks from chunk i on.  acc holds the documents, the
\* commits made, allIds, failed, deletedCount and the writes that were
\* committed.
RECURSIVE BatchChunks(_, _, _, _, _, _, _, _)
BatchChunks(op, chunks, i, acc, data, merge, delivered, fresh) ==
  IF i > Len(chunks) THEN acc
  ELSE
    LET chunk == chunks[i]
        valid == SelectSeq(chunk, ValidId)
        invalid == SelectSeq(chunk, LAMBDA id : ~ValidId(id))
        \* batchCreate: the ids of the new refs
        made == Len(SelectSeq(SubSeq(acc.input, 1, (i - 1) * MaxBatchSize), ValidId))
        chunkIds == IF op = "batchCreate"
                      THEN SubSeq(fresh, made + 1, made + Len(valid))
                      ELSE valid
        staged == [acc EXCEPT
                     !.failed = IF op = "batchCreate"
                                  THEN @ \o [j \in 1..Len(invalid) |-> 0]
                                  ELSE @ \o invalid,
                     !.allIds = IF op \in {"batchCreate", "batchDelete"} THEN @
                                ELSE @ \o valid]
        ok == CommitSucceeds(op, acc.docs, chunkIds, delivered[i])
        ts == acc.commits + 1
        next ==
          IF ok
            THEN [staged EXCEPT
                    !.docs = ApplyBatch(op, @, chunkIds, data, merge, ts),
                    !.commits = @ + 1,
                    !.committed = @ + Len(chunkIds),
                    !.allIds = IF op = "batchCreate" THEN @ \o chunkIds ELSE @,
                    !.deletedCount =
                       IF op = "batchDelete"
                         THEN @ + Len(chunk)
                                - Cardinality({j \in 1..Len(staged.failed) :
                                                 staged.failed[j] \in Range(chunk)})
                         ELSE @]
            ELSE [staged EXCEPT
                    !.failed = IF op = "batchCreate" THEN @ \o chunkIds
                               ELSE PushMissing(@, chunk)]
    IN  BatchChunks(op, chunks, i + 1, next, data, merge, delivered, fresh)

\* new BatchOperationError(message, failed)
BatchOperationError ==
  [ok |-> FALSE, code |-> "BATCH_OPERATION_ERROR", status |-> "", id |-> 1]

VARIABLES
  lastBatch   \* the latest batch call: what it returned or threw

batchVars == <<lastBatch>>

NoBatch ==
  [op |-> "none", input |-> <<>>, thrown |-> NoThrow, success |-> TRUE,
   count |-> 0, ids |-> <<>>, failed |-> <<>>, committed |-> 0]

BatchInit == lastBatch = NoBatch

\* A batch operation and the withRetry around it.
BatchCall(op, items, data, merge, delivered, enabled, configured, config) ==
  LET chunks == chunkArray(items, MaxBatchSize)
      fresh == SortedSeq(FreeIds)
      acc == BatchChunks(op, chunks, 1,
                         [docs |-> store, commits |-> writes, input |-> items,
                          allIds |-> <<>>, failed |-> <<>>, deletedCount |-> 0,
                          committed |-> 0],
                         data, merge, delivered, fresh)
      throws == op = "batchCreate" /\ Len(acc.failed) > 0 /\ Len(acc.allIds) = 0
  IN  /\ writes + Len(chunks) <= MaxBatchWrites
      /\ op = "batchCreate" => Len(SelectSeq(items, ValidId)) <= Len(fresh)
      /\ store' = acc.docs
      /\ writes' = acc.commits
      /\ lastBatch' =
           [op |-> op, input |-> items,
            thrown |-> IF throws
                         THEN withRetryRejected(enabled, configured, config, op,
                                                BatchOperationError).thrown
                         ELSE NoThrow,
            success |-> Len(acc.failed) = 0,
            count |-> IF op = "batchCreate" THEN Len(acc.allIds)
                      ELSE IF op = "batchDelete" THEN acc.deletedCount
                      ELSE Len(acc.allIds) - Len(acc.failed),
            ids |-> IF op = "batchDelete" THEN items ELSE acc.allIds,
            failed |-> acc.failed,
            committed |-> acc.committed]
      /\ UNCHANGED lastOp

\* BatchService.batchCreate(collection, documents)
BatchCreate(items, data, delivered, enabled, configured, config) ==
  BatchCall("batchCreate", items, data, FALSE, delivered, enabled, configured, config)

\* BatchService.batchSet(collection, documents)
BatchSet(items, data, merge, delivered) ==
  BatchCall("batchSet", items, data, merge, delivered, TRUE, TRUE, NoConfig)

\* BatchService.batchUpdate(collection, updates)
BatchUpdate(items, data, delivered) ==
  BatchCall("batchUpdate", items, data, FALSE, delivered, TRUE, TRUE, NoConfig)

\* BatchService.batchDelete(collection, ids)
BatchDelete(items, delivered) ==
  BatchCall("batchDelete", items, NoObject, FALSE, delivered, TRUE, TRUE, NoConfig)

\* BatchService.batchIncrement(collection, updates)
BatchIncrement(items, delivered) ==
  BatchCall("batchIncrement", items, NoObject, FALSE, delivered, TRUE, TRUE, NoConfig)

\* new TransactionError(message, context)
TransactionError ==
  [ok |-> FALSE, code |-> "TRANSACTION_ERROR", status |-> "", id |-> 1]

\* the documents a balance is kept in
BalanceObjects == {[NoObject EXCEPT ![CounterField] = v] : v \in 1..MaxValue}

\* SimpleCrudService.set(collection, id, data, merge)
Set(id, data, merge) ==
  /\ writes < MaxWrites
  /\ store' = [store EXCEPT ![id] =
                 IF merge
                   THEN DocSetMerge(@, TopLevelFields(data), ServerTimestamp)
                   ELSE DocSet(TopLevelFields(data), 0, ServerTimestamp)]
  /\ writes' = writes + 1
  /\ lastOp' = Returned("set", id, 0, 0)
  /\ UNCHANGED lastBatch

\* (doc.data()?.[field] as number) || 0, of a field that holds a number
FieldNumber(doc, field) == NumberAt(doc, <<field>>)

\* TransactionService.atomicTransfer(collection, fromId, collection, toId,
\* field, amount): the transaction reads both documents, throws for a missing
\* document or an insufficient source, and else commits both updates at once.
AtomicTransfer(fromId, toId, amount, enabled, configured, config) ==
  LET fromValue == FieldNumber(store[fromId], CounterField)
      toValue == FieldNumber(store[toId], CounterField)
      rejected(error) ==
        Threw("atomicTransfer", fromId,
              withRetryRejected(enabled, configured, config, "atomicTransfer", error))
      debited == [store EXCEPT ![fromId] =
                    DocUpdate(@, {[path |-> TopLevelPath(CounterField),
                                   value |-> fromValue - amount]},
                              ServerTimestamp)]
      credited == [debited EXCEPT ![toId] =
                     DocUpdate(@, {[path |-> TopLevelPath(CounterField),
                                    value |-> toValue + amount]},
                               ServerTimestamp)]
  IN  /\ IF ~store[fromId].exists \/ ~store[toId].exists
           THEN /\ lastOp' = rejected(DocumentNotFoundError)
                /\ UNCHANGED <<store, writes>>
           ELSE IF fromValue < amount
             THEN /\ lastOp' = rejected(TransactionError)
                  /\ UNCHANGED <<store, writes>>
             ELSE /\ writes < MaxWrites
                  /\ store' = credited
                  /\ writes' = writes + 1
                  /\ lastOp' = Returned("atomicTransfer", fromId, 2, 2)
      /\ UNCHANGED lastBatch

(***************************************************************************)
(* Part 5: compare-and-swap, decrement and queries                         *)
(***************************************************************************)

\* A JavaScript value read from a document or passed by a caller: undefined,
\* a scalar, or a map (an object, equal to no value a caller passes).
Undefined == [kind |-> "undefined", value |-> 0]

Scalar(v) == [kind |-> "value", value |-> v]

MapValue == [kind |-> "object", value |-> 0]

\* the values a caller passes for expectedValue
ExpectedValues == {Undefined} \cup {Scalar(v) : v \in 1..MaxValue}

\* data[field]: the property of the document data whose name is field
PropertyOf(doc, field) ==
  IF \E l \in doc.fields : l.path = <<field>>
    THEN Scalar((CHOOSE l \in doc.fields : l.path = <<field>>).value)
    ELSE IF \E l \in doc.fields : l.path[1] = field
      THEN MapValue
      ELSE Undefined

\* currentValue !== expectedValue
StrictNotEqual(a, b) == a.kind = "object" \/ a # b

VARIABLES
  lastSwap    \* what the latest compareAndSwap returned

returnVars == <<lastSwap>>

NoSwap == [returned |-> FALSE, swapped |-> FALSE, currentValue |-> Undefined]

ReturnInit == lastSwap = NoSwap

\* TransactionService.compareAndSwap(collection, id, field, expectedValue,
\* newValue): one transaction, which reads the document, compares and updates.
CompareAndSwap(id, field, expectedValue, newValue, enabled, configured, config) ==
  LET currentValue == PropertyOf(store[id], field)
  IN  /\ IF ~store[id].exists
           THEN /\ lastOp' = Threw("compareAndSwap", id,
                                   withRetryRejected(enabled, configured, config,
                                                     "compareAndSwap",
                                                     DocumentNotFoundError))
                /\ lastSwap' = NoSwap
                /\ UNCHANGED <<store, writes>>
           ELSE IF StrictNotEqual(currentValue, expectedValue)
             THEN /\ lastOp' = Returned("compareAndSwap", id, 1, 0)
                  /\ lastSwap' = [returned |-> TRUE, swapped |-> FALSE,
                                  currentValue |-> currentValue]
                  /\ UNCHANGED <<store, writes>>
             ELSE /\ writes < MaxWrites
                  /\ store' = [store EXCEPT ![id] =
                                 DocUpdate(@, {[path |-> TopLevelPath(field),
                                                value |-> newValue]},
                                           ServerTimestamp)]
                  /\ writes' = writes + 1
                  /\ lastOp' = Returned("compareAndSwap", id, 1, 1)
                  /\ lastSwap' = [returned |-> TRUE, swapped |-> TRUE,
                                  currentValue |-> Undefined]
      /\ UNCHANGED lastBatch

\* the floors a caller passes for minValue
MinValues == 0..1

\* TransactionService.atomicDecrement(collection, id, field, amount,
\* minValue); without hasMin minValue is undefined.  The numbers of the model
\* are not negative.
AtomicDecrement(id, amount, hasMin, minValue, enabled, configured, config) ==
  LET currentValue == FieldNumber(store[id], CounterField)
      newValue == currentValue - amount
      rejected(error) ==
        Threw("atomicDecrement", id,
              withRetryRejected(enabled, configured, config, "atomicDecrement",
                                error))
  IN  /\ IF ~store[id].exists
           THEN /\ lastOp' = rejected(DocumentNotFoundError)
                /\ UNCHANGED <<store, writes>>
           ELSE IF hasMin /\ newValue < minValue
             THEN /\ lastOp' = rejected(TransactionError)
                  /\ UNCHANGED <<store, writes>>
             ELSE /\ writes < MaxWrites
                  /\ newValue >= 0
                  /\ store' = [store EXCEPT ![id] =
                                 DocUpdate(@, {[path |-> TopLevelPath(CounterField),
                                                value |-> newValue]},
                                           ServerTimestamp)]
                  /\ writes' = writes + 1
                  /\ lastOp' = Returned("atomicDecrement", id, 1, 1)
      /\ UNCHANGED lastBatch

\* A string is the sequence of its characters.  The collection is "c" and
\* its documents are "1", "2", ...
PathStrings == {<<>>, <<"c">>, <<"/", "c">>, <<"c", "/">>}

\* the ids callers pass
IdStrings == {<<>>, <<"1">>, <<"1", "/", "2">>}

\* validatePath(path) returns (TRUE) or throws (FALSE)
validatePath(path) ==
  /\ path # <<>>
  /\ path[1] # "/" /\ path[Len(path)] # "/"

\* validateId(id) returns (TRUE) or throws (FALSE)
validateId(id) ==
  /\ id # <<>>
  /\ \A i \in 1..Len(id) : id[i] # "/"

\* the document an id names, 0 if it names none
DocOf(id) ==
  CASE id = <<"1">> -> 1
    [] id = <<"2">> -> 2
    [] OTHER -> 0

\* the item of a batch an id string is: 0 for an id validateId rejects
ItemOf(id) == IF validateId(id) THEN DocOf(id) ELSE 0

\* an id as the value of a ref: the string of its digits, or a string no
\* ref holds
RefValueOf(id) ==
  IF DocOf(id) # 0 THEN 0 - DocOf(id) ELSE 0 - (MaxValue + MaxDocs + 1)

\* the refs of a document without a parent and of a child of document "1"
ParentRefs == {NoObject, [NoObject EXCEPT ![<<"k">>] = 0 - 1]}

\* items of a batch call whose ids are checked
MaxCheckedItems == 2

CheckedInputs == UNION {[1..n -> IdStrings] : n \in 0..MaxCheckedItems}

\* rules of a cascade
MaxRules == 2

CascadeRules ==
  UNION {[1..n -> [collection : {<<>>, <<"c">>}, refKey : {<<"k">>}]] :
           n \in 0..MaxRules}

VARIABLES
  lastChecked   \* the latest call given identifier strings: whether one
                \* of them was invalid, what the call threw, the client
                \* calls it issued and the runs of its body

checkVars == <<lastChecked>>

NoChecked ==
  [op |-> "none", invalid |-> FALSE, thrown |-> "none", io |-> 0,
   attempts |-> 0]

\* whether one of the paths or ids is one its validator rejects
AnyInvalid(paths, ids) ==
  \/ \E i \in 1..Len(paths) : ~validatePath(paths[i])
  \/ \E i \in 1..Len(ids) : ~validateId(ids[i])

CheckInit == lastChecked = NoChecked

\* SimpleCrudService.delete(collection, id): the validation, then the
\* operation under withRetry.
DeleteAt(collection, id) ==
  IF ~validatePath(collection) \/ ~validateId(id)
    THEN /\ lastChecked' = [op |-> "delete", invalid |-> TRUE,
                            thrown |-> "validation", io |-> 0,
                            attempts |-> 0]
         /\ UNCHANGED <<storeVars, batchVars>>
    ELSE /\ DocOf(id) # 0
         /\ Delete(DocOf(id))
         /\ lastChecked' = [op |-> "delete", invalid |-> FALSE,
                            thrown |-> "none", io |-> 1,
                            attempts |-> 1]
         /\ UNCHANGED batchVars

\* BatchService.batchSet(collection, documents): validatePath, then the
\* operation, which validates each item's id inside its try block.
BatchSetAt(collection, ids, data, merge, delivered) ==
  IF ~validatePath(collection)
    THEN /\ lastChecked' = [op |-> "batchSet", invalid |-> TRUE,
                            thrown |-> "validation", io |-> 0,
                            attempts |-> 0]
         /\ UNCHANGED <<storeVars, batchVars>>
    ELSE /\ BatchSet([i \in 1..Len(ids) |-> ItemOf(ids[i])], data, merge, delivered)
         /\ lastChecked' = [op |-> "batchSet",
                            invalid |-> AnyInvalid(<<collection>>, ids),
                            thrown |-> "none",
                            io |-> Len(chunkArray(ids, MaxBatchSize)),
                            attempts |-> 1]

\* the documents where(`refs.${refKey}`, "==", refValue) matches
ChildrenOf(docs, refKey, refValue) ==
  {id \in DocIds :
     /\ docs[id].exists
     /\ [path |-> FieldPath("refs", refKey), value |-> refValue] \in docs[id].fields}

\* The loop of cascadeDeleteRelational over its rules from rule i on:
\* deleteByRef validates the rule's collection, and deleteQueryBatch gets the
\* query, commits the deletes of the documents found and gets the query again.
RECURSIVE CascadeChildren(_, _, _, _)
CascadeChildren(rules, i, parentId, acc) ==
  IF i > Len(rules) \/ acc.thrown # "none" THEN acc
  ELSE
    LET children == ChildrenOf(acc.docs, rules[i].refKey, RefValueOf(parentId))
        next ==
          IF ~validatePath(rules[i].collection)
            THEN [acc EXCEPT !.thrown = "validation"]
            ELSE IF children = {}
              THEN [acc EXCEPT !.io = @ + 1]
              ELSE [acc EXCEPT
                      !.docs = [id \in DocIds |->
                                  IF id \in children THEN NoDoc ELSE @[id]],
                      !.io = @ + 3]
    IN  CascadeChildren(rules, i + 1, parentId, next)

\* RelationalCrudService.cascadeDeleteRelational(parentCollection, parentId,
\* cascadeRules): the children of every rule, then the parent.  The client
\* rejects an empty path or id and an id that is no document's; it takes a
\* path with a leading or trailing "/" or rejects it (accepted).
CascadeDeleteRelational(parentCollection, parentId, rules, accepted) ==
  LET acc == CascadeChildren(rules, 1, parentId,
                             [docs |-> store, io |-> 0, thrown |-> "none"])
      clientTakes ==
        /\ parentCollection # <<>> /\ validateId(parentId)
        /\ validatePath(parentCollection) \/ accepted
      result(docs, error, io) ==
        /\ store' = docs
        /\ lastChecked' =
             [op |-> "cascadeDeleteRelational",
              invalid |->
                AnyInvalid(<<parentCollection>>
                             \o [i \in 1..Len(rules) |-> rules[i].collection],
                           <<parentId>>),
              thrown |-> error, io |-> io,
              attempts |-> 1]
        /\ lastOp' = [NoOp EXCEPT !.op = "cascadeDeleteRelational",
                                  !.id = DocOf(parentId)]
  IN  /\ IF acc.thrown # "none"
           THEN result(acc.docs, acc.thrown, acc.io)
           ELSE IF ~clientTakes
             THEN result(acc.docs, "client", acc.io)
             ELSE /\ DocOf(parentId) # 0
                  /\ result([acc.docs EXCEPT ![DocOf(parentId)] = NoDoc],
                            "none", acc.io + 1)
      /\ UNCHANGED <<writes, batchVars>>

\* the limit of a page
MaxLimit == 2

\* the filters of a query: none, and k == 1
QueryFilters == {NoObject, [NoObject EXCEPT ![<<"k">>] = 1]}

\* ref.where(key, "==", value) for every entry of filters
MatchesFilters(doc, filters) ==
  /\ doc.exists
  /\ \A key \in KeysOf(filters) :
       [path |-> TopLevelPath(key), value |-> filters[key]] \in doc.fields

\* The documents of the query after the cursor, in the order of the query
\* (by id); startAfter 0 is no cursor.
QueryAfter(docs, filters, startAfter) ==
  SortedSeq({id \in DocIds : MatchesFilters(docs[id], filters) /\ id > startAfter})

\* ref.limit(limit)
Limited(ids, limit) == SubSeq(ids, 1, Min(limit, Len(ids)))

\* hasMore: snap.docs.length === limit
hasMore(docs, limit) == Len(docs) = limit

VARIABLES
  lastPage    \* what the latest queryPaginated returned

queryVars == <<lastPage>>

NoPage == [returned |-> FALSE, docs |-> <<>>, lastDoc |-> 0, hasMore |-> FALSE]

QueryInit == lastPage = NoPage

\* QueryService.queryPaginated(collection, filters, limit, startAfter)
QueryPaginated(filters, limit, startAfter) ==
  LET docs == Limited(QueryAfter(store, filters, startAfter), limit)
  IN  /\ lastPage' = [returned |-> TRUE, docs |-> docs,
                      lastDoc |-> IF docs = <<>> THEN 0 ELSE docs[Len(docs)],
                      hasMore |-> hasMore(docs, limit)]
      /\ UNCHANGED <<storeVars, batchVars>>

(***************************************************************************)
(* Part 6: concurrent atomicIncrement calls                                *)
(***************************************************************************)

\* runs of the update function one db.runTransaction makes before it gives up
MaxTxAttempts == 2

\* the amounts added
Amounts == 1..2

\* the field names passed: "k" and "k.m"
IncrementFields == {<<"k">>, <<"k", "m">>}

\* the documents incremented: { k: v }
CounterObjects == {[NoObject EXCEPT ![<<"k">>] = v] : v \in 1..MaxValue}

\* the retry settings of the service that increments
IncrementConfigs == {config \in ServiceConfigs : config.maxRetries <= 1}

\* what the client throws when the transaction ran out of attempts, and when
\* the answer to a commit did not arrive
Aborted == ErrorObject([code |-> "", status |-> "ABORTED"], 1)

Unavailable == ErrorObject([code |-> "UNAVAILABLE", status |-> ""], 1)

VARIABLES
  incCall,   \* the document and field the atomicIncrement calls name, and the
             \* number stored at that field when the first call began
  incs       \* the atomicIncrement call of each caller

incVars == <<incCall, incs>>

\* A call: where it stands ("idle" before the call, "get" before tx.get,
\* "commit" after tx.update, "done", "failed"), its amount, currentValue and
\* the document as tx.get read it, the runs of the update function in this
\* transaction, the attempt of retryWithBackoff, and the service's settings.
NoIncrement ==
  [pc |-> "idle", amount |-> 0, currentValue |-> 0, snapshot |-> NoDoc,
   runs |-> 0, attempt |-> 0, passthrough |-> TRUE, config |-> NoConfig]

IncrementInit ==
  /\ incCall = [chosen |-> FALSE, id |-> 0, field |-> <<"k">>, base |-> 0]
  /\ incs = [c \in CallerIds |-> NoIncrement]

\* the number update() stores under the field name
StoredNumber(doc, field) == NumberAt(doc, TopLevelPath(field))

\* The call after its operation rejected with error: withRetry without retry
\* lets it through, retryWithBackoff stops at the last attempt and at an
\* error that is not retryable, and else runs the operation again.
AfterRejection(s, error) ==
  IF \/ s.passthrough
     \/ BudgetExhausted(s.attempt, s.config)
     \/ ~isRetryableError(error)
    THEN [s EXCEPT !.pc = "failed"]
    ELSE [s EXCEPT !.pc = "get", !.attempt = @ + 1, !.runs = 0]

\* atomicIncrement(collection, id, field, amount) is called.
IncrementBegin(c, id, field, amount, enabled, configured, config) ==
  /\ incs[c].pc = "idle"
  /\ incCall.chosen => (incCall.id = id /\ incCall.field = field)
  /\ incCall' = IF incCall.chosen THEN incCall
                ELSE [chosen |-> TRUE, id |-> id, field |-> field,
                      base |-> StoredNumber(store[id], field)]
  /\ incs' = [incs EXCEPT ![c] =
                [NoIncrement EXCEPT !.pc = "get", !.amount = amount,
                                    !.passthrough = Passthrough(enabled, configured),
                                    !.config = config]]
  /\ UNCHANGED <<store, writes, lastOp, lastBatch>>

\* The update function up to tx.update: tx.get, the throw for a missing
\* document, currentValue = doc.data()?.[field] || 0.
IncrementGet(c) ==
  /\ incs[c].pc = "get"
  /\ LET doc == store[incCall.id] IN
       incs' = [incs EXCEPT ![c] =
                  IF ~doc.exists
                    THEN AfterRejection(@, DocumentNotFoundError)
                    ELSE [@ EXCEPT !.pc = "commit",
                                   !.currentValue = FieldNumber(doc, incCall.field),
                                   !.snapshot = doc]]
  /\ UNCHANGED <<incCall, store, writes, lastOp, lastBatch>>

\* The commit of the transaction.  The store applies the update if the
\* document is as tx.get read it, and the call returns unless the answer is
\* lost; if the document changed since, the update function runs again, up to
\* MaxTxAttempts runs.
IncrementCommit(c, lost) ==
  /\ incs[c].pc = "commit"
  /\ LET s == incs[c]
         id == incCall.id
     IN  IF store[id] = s.snapshot
           THEN /\ writes < MaxWrites
                /\ store' = [store EXCEPT ![id] =
                               DocUpdate(@, {[path |-> TopLevelPath(incCall.field),
                                              value |-> s.currentValue + s.amount]},
                                         ServerTimestamp)]
                /\ writes' = writes + 1
                /\ incs' = [incs EXCEPT ![c] =
                              IF lost THEN AfterRejection(s, Unavailable)
                              ELSE [s EXCEPT !.pc = "done"]]
           ELSE /\ ~lost
                /\ incs' = [incs EXCEPT ![c] =
                              IF s.runs + 1 < MaxTxAttempts
                                THEN [s EXCEPT !.pc = "get", !.runs = @ + 1]
                                ELSE AfterRejection(s, Aborted)]
                /\ UNCHANGED <<store, writes>>
  /\ UNCHANGED <<incCall, lastOp, lastBatch>>

(***************************************************************************)
(* Part 7: one batch operation, commit by commit                           *)
(***************************************************************************)

\* the operations followed commit by commit
RunOps == {"batchSet", "batchUpdate", "batchDelete"}

VARIABLES
  batchRun   \* the batch operation in progress

runVars == <<batchRun>>

\* A batch operation: where it stands ("idle", "loop" in the for loop over
\* the chunks, "done"), its input and chunks, the index of the next chunk,
\* the chunks whose commit() is issued and not settled, the chunks in the
\* order their commits were issued, the chunks settled and whether their
\* commit resolved, and allIds and failed.
NoRun ==
  [pc |-> "idle", op |-> "none", input |-> <<>>, chunks |-> <<>>, i |-> 1,
   inFlight |-> {}, started |-> <<>>, settled |-> <<>>,
   allIds |-> <<>>, failed |-> <<>>]

RunInit == batchRun = NoRun

\* await batch.commit(): the loop goes on when the commit has settled
AwaitedWhatever(inFlight) == TRUE

Awaited(inFlight) == inFlight = {}

\* The operation is called: chunkArray(items, MAX_BATCH_SIZE).
RunStart(op, items) ==
  /\ batchRun.pc = "idle"
  /\ batchRun' = [NoRun EXCEPT !.pc = "loop", !.op = op, !.input = items,
                               !.chunks = chunkArray(items, MaxBatchSize)]
  /\ UNCHANGED <<store, writes, lastOp, lastBatch>>

\* One turn of the for loop up to its await: the writes of the chunk are
\* staged, the items validateId rejects are pushed to failed, and
\* batch.commit() is called.
RunCommit ==
  /\ batchRun.pc = "loop"
  /\ Awaited(batchRun.inFlight)
  /\ batchRun.i <= Len(batchRun.chunks)
  /\ LET chunk == batchRun.chunks[batchRun.i] IN
       batchRun' = [batchRun EXCEPT
                      !.allIds = IF batchRun.op = "batchDelete" THEN @
                                 ELSE @ \o SelectSeq(chunk, ValidId),
                      !.failed = @ \o SelectSeq(chunk, LAMBDA id : ~ValidId(id)),
                      !.inFlight = @ \cup {batchRun.i},
                      !.started = Append(@, batchRun.i),
                      !.i = @ + 1]
  /\ UNCHANGED <<store, writes, lastOp, lastBatch>>

\* The commit of chunk n settles: the store applied it (delivered, and no
\* update of a missing document in it) or the commit rejected, and the catch
\* clause pushed the chunk's items to failed.
RunSettle(n, data, merge, delivered) ==
  /\ batchRun.pc = "loop"
  /\ n \in batchRun.inFlight
  /\ LET valid == SelectSeq(batchRun.chunks[n], ValidId)
         ok == CommitSucceeds(batchRun.op, store, valid, delivered)
     IN  /\ IF ok
              THEN /\ writes < MaxWrites
                   /\ store' = ApplyBatch(batchRun.op, store, valid, data, merge,
                                          ServerTimestamp)
                   /\ writes' = writes + 1
              ELSE UNCHANGED <<store, writes>>
         /\ batchRun' = [batchRun EXCEPT
                           !.inFlight = @ \ {n},
                           !.settled = Append(@, [chunk |-> n, ok |-> ok]),
                           !.failed = IF ok THEN @
                                      ELSE PushMissing(@, batchRun.chunks[n])]
  /\ UNCHANGED <<lastOp, lastBatch>>

\* The loop is over and the result is returned.
RunReturn ==
  /\ batchRun.pc = "loop"
  /\ Awaited(batchRun.inFlight)
  /\ batchRun.i > Len(batchRun.chunks)
  /\ batchRun' = [batchRun EXCEPT !.pc = "done"]
  /\ UNCHANGED <<store, writes, lastOp, lastBatch>>

(***************************************************************************)
(* Part 8: deleteCollection                                                *)
(***************************************************************************)

\* the batchSize arguments are 1..MaxPageSize
MaxPageSize == 3

VARIABLES
  lastDelete   \* what the latest deleteCollection did and returned

deleteVars == <<lastDelete>>

\* pages holds snapshot.size of every get() of the call, in order.
NoDelete ==
  [returned |-> FALSE, batchSize |-> 0, pages |-> <<>>, deleted |-> 0,
   batches |-> 0]

DeleteInit == lastDelete = NoDelete

\* if (snapshot.size < batchSize) break
ShortPageNever(size, batchSize) == FALSE

ShortPage(size, batchSize) == size < batchSize

\* The while loop of deleteCollection on the documents docs: the page read,
\* the break on an empty page, the commit of the deletes, the break on a
\* short page.
RECURSIVE DeletePages(_, _, _)
DeletePages(docs, batchSize, acc) ==
  LET snapshot == Limited(QueryAfter(docs, NoObject, 0), batchSize)
      size == Len(snapshot)
      read == [acc EXCEPT !.pages = Append(@, size)]
      committed == ApplyBatch("batchDelete", docs, snapshot, NoObject, FALSE, 0)
      counted == [read EXCEPT !.docs = committed, !.deleted = @ + size,
                              !.batches = @ + 1]
  IN  IF size = 0 THEN read
      ELSE IF ShortPage(size, batchSize) THEN counted
      ELSE DeletePages(committed, batchSize, counted)

\* BatchService.deleteCollection(collection, batchSize), with no other writer
\* and no failure.
DeleteCollection(batchSize) ==
  LET result == DeletePages(store, batchSize,
                            [docs |-> store, pages |-> <<>>, deleted |-> 0,
                             batches |-> 0])
  IN  /\ store' = result.docs
      /\ lastDelete' = [returned |-> TRUE, batchSize |-> batchSize,
                        pages |-> result.pages, deleted |-> result.deleted,
                        batches |-> result.batches]
      /\ UNCHANGED <<writes, lastOp, lastBatch>>

(***************************************************************************)
(* Part 9: migration scans                                                 *)
(***************************************************************************)

\* whether batch.commit() of each chunk of a scan gets through to the store
ScanOutcomes == [1..MaxDocs -> BOOLEAN]

\* what a commit that does not get through rejects with
NotFound == ErrorObject([code |-> "NOT_FOUND", status |-> ""], 1)

CommitErrors == {Unavailable, NotFound}

ScanOps == {"batchTransform", "addFieldToAll"}

\* the documents the transformation throws for
ThrowingSets == {{}, {1}}

VARIABLES
  lastScan   \* the latest migration scan: what it did and returned or threw

scanVars == <<lastScan>>

\* docs holds the ids the scan read, errors the ids in the result's error
\* list, processed the ids whose write was committed.
NoScan ==
  [op |-> "none", docs |-> <<>>, chunks |-> <<>>, thrown |-> NoThrow,
   converted |-> 0, errors |-> <<>>, processed |-> {}, rejected |-> 0]

ScanInit == lastScan = NoScan

\* The loop over the chunks of a scan from chunk i on.  In batchTransform the
\* transformation throws for the documents in throwing, which the catch
\* clause pushes to errors; addFieldToAll stages an update for every
\* document.  await batch.commit() stands outside every try block: a commit
\* that rejects ends the loop (rejected is its chunk).
RECURSIVE ScanChunks(_, _, _, _, _, _, _)
ScanChunks(op, chunks, i, acc, data, throwing, delivered) ==
  IF i > Len(chunks) THEN acc
  ELSE
    LET chunk == chunks[i]
        caught == IF op = "batchTransform"
                    THEN SelectSeq(chunk, LAMBDA id : id \in throwing)
                    ELSE <<>>
        staged == SelectSeq(chunk, LAMBDA id : id \notin Range(caught))
        counted == [acc EXCEPT !.errors = @ \o caught,
                               !.converted = @ + Len(staged)]
        write == IF op = "batchTransform" THEN "batchSet" ELSE "batchUpdate"
    IN  IF CommitSucceeds(write, acc.docs, staged, delivered[i])
          THEN ScanChunks(op, chunks, i + 1,
                          [counted EXCEPT
                             !.docs = ApplyBatch(write, @, staged, data, FALSE,
                                                 acc.commits + 1),
                             !.commits = @ + 1,
                             !.processed = @ \cup Range(staged)],
                          data, throwing, delivered)
          ELSE [counted EXCEPT !.rejected = i]

\* MigrationService.batchTransform(collection, transformation, batchSize) and
\* addFieldToAll(collection, field, value, batchSize), and the withRetry
\* around them; the commit that rejects does so in every attempt.
Scan(op, batchSize, data, throwing, delivered, error, enabled, configured, config) ==
  LET docs == QueryAfter(store, NoObject, 0)
      chunks == chunkArray(docs, batchSize)
      acc == ScanChunks(op, chunks, 1,
                        [docs |-> store, commits |-> writes, converted |-> 0,
                         errors |-> <<>>, processed |-> {}, rejected |-> 0],
                        data, throwing, delivered)
  IN  /\ writes + Len(chunks) <= MaxWrites
      /\ store' = acc.docs
      /\ writes' = acc.commits
      /\ lastScan' =
           [op |-> op, docs |-> docs, chunks |-> chunks,
            thrown |-> IF acc.rejected # 0
                         THEN withRetryRejected(enabled, configured, config, op,
                                                error).thrown
                         ELSE NoThrow,
            converted |-> acc.converted, errors |-> acc.errors,
            processed |-> acc.processed, rejected |-> acc.rejected]
      /\ UNCHANGED <<lastOp, lastBatch>>

(***************************************************************************)
(* Part 10: the operations of Facades, await by await                      *)
(***************************************************************************)

VARIABLE
  firstOps   \* the public operation each caller has in progress

firstVars == <<firstOps>>

\* An operation: where it stands ("idle" before the call, "initialized" at
\* the await of initialize(), "getFirestore" at the await of
\* ensureInitialized(), "construct" at the await of getDb(), "done",
\* "failed"), the Facade and the family of its service, and the handle it got.
NoFirstOp == [pc |-> "idle", facade |-> 0, fam |-> "crud", handle |-> 0]

FirstInit == firstOps = [c \in CallerIds |-> NoFirstOp]

\* A public operation of Facade g is called.  get<Family>Service finds the
\* service cached, or calls getDb, which calls ensureInitialized, which
\* returns at once or calls initialize(): all of it runs before the first
\* await gives way.
OperationCall(c, g, fam, fail) ==
  /\ firstOps[c].pc = "idle"
  /\ g \in 1..facadesCreated
  /\ LET a == facades[g]
         f == a.connectionFactory
         r == initialize(factories[f], adminApps, appsCreated, fail)
         s == [NoFirstOp EXCEPT !.facade = g, !.fam = fam]
     IN  IF a.services[fam] # 0
           THEN /\ firstOps' = [firstOps EXCEPT ![c] =
                                  [s EXCEPT !.pc = "done", !.handle = a.services[fam]]]
                /\ UNCHANGED <<factories, adminApps, appsCreated>>
           ELSE IF a.isInitialized
             THEN /\ firstOps' = [firstOps EXCEPT ![c] = [s EXCEPT !.pc = "getFirestore"]]
                  /\ UNCHANGED <<factories, adminApps, appsCreated>>
             ELSE /\ factories' = [factories EXCEPT ![f] = r.cf]
                  /\ adminApps' = r.apps
                  /\ appsCreated' = r.created
                  /\ firstOps' = [firstOps EXCEPT ![c] =
                                    [s EXCEPT !.pc = IF r.ok THEN "initialized"
                                                     ELSE "failed"]]
  /\ UNCHANGED <<closeAll, now, instance, factoriesCreated, facadesCreated,
                 facades, instances, defaultInstanceName, pendingCloses, lastCall>>

\* ensureInitialized resumes after the await of initialize().
OperationInitialized(c) ==
  /\ firstOps[c].pc = "initialized"
  /\ facades' = [facades EXCEPT ![firstOps[c].facade].isInitialized = TRUE]
  /\ firstOps' = [firstOps EXCEPT ![c].pc = "getFirestore"]
  /\ UNCHANGED <<closeAll, now, instance, factoriesCreated, factories, adminApps,
                 appsCreated, facadesCreated, instances, defaultInstanceName,
                 pendingCloses, lastCall>>

\* getDb resumes after the await of ensureInitialized() and calls
\* getFirestore().
OperationGetFirestore(c, fail) ==
  /\ firstOps[c].pc = "getFirestore"
  /\ LET f == facades[firstOps[c].facade].connectionFactory
         r == getFirestore(factories[f], adminApps, appsCreated, fail)
     IN  /\ factories' = [factories EXCEPT ![f] = r.cf]
         /\ adminApps' = r.apps
         /\ appsCreated' = r.created
         /\ firstOps' = [firstOps EXCEPT ![c] =
                           IF r.ok THEN [@ EXCEPT !.pc = "construct", !.handle = r.handle]
                           ELSE [@ EXCEPT !.pc = "failed"]]
  /\ UNCHANGED <<closeAll, now, instance, factoriesCreated, facadesCreated,
                 facades, instances, defaultInstanceName, pendingCloses, lastCall>>

\* get<Family>Service resumes after the await of getDb(): the service is
\* built on the handle and cached, and the operation runs on it.
OperationConstruct(c) ==
  /\ firstOps[c].pc = "construct"
  /\ facades' = [facades EXCEPT
                   ![firstOps[c].facade].services[firstOps[c].fam] = firstOps[c].handle]
  /\ firstOps' = [firstOps EXCEPT ![c].pc = "done"]
  /\ UNCHANGED <<closeAll, now, instance, factoriesCreated, factories, adminApps,
                 appsCreated, facadesCreated, instances, defaultInstanceName,
                 pendingCloses, lastCall>>

(***************************************************************************)
(* Specifications                                                          *)
(***************************************************************************)

vars ==
  <<retryVars, connVars, storeVars, relationVars, batchVars, returnVars,
    checkVars, queryVars, incVars, runVars, deleteVars, scanVars, firstVars>>

\* what the steps of one part leave alone
otherThanRetry ==
  <<connVars, storeVars, relationVars, batchVars, returnVars, checkVars, queryVars,
    incVars, runVars, deleteVars, scanVars, firstVars>>

otherThanConn ==
  <<retryVars, storeVars, relationVars, batchVars, returnVars, checkVars, queryVars,
    incVars, runVars, deleteVars, scanVars, firstVars>>

otherThanStore ==
  <<retryVars, connVars, relationVars, batchVars, returnVars, checkVars, queryVars,
    incVars, runVars, deleteVars, scanVars, firstVars>>

otherThanRelation ==
  <<retryVars, connVars, batchVars, returnVars, checkVars, queryVars, incVars, runVars, deleteVars, scanVars, firstVars>>

otherThanBatch ==
  <<retryVars, connVars, relationVars, returnVars, checkVars, queryVars, incVars, runVars, deleteVars, scanVars, firstVars>>

otherThanReturn ==
  <<retryVars, connVars, relationVars, checkVars, queryVars, incVars, runVars, deleteVars, scanVars, firstVars>>

otherThanChecked ==
  <<retryVars, connVars, relationVars, returnVars, queryVars, incVars, runVars, deleteVars, scanVars, firstVars>>

otherThanQuery ==
  <<retryVars, connVars, relationVars, returnVars, checkVars, incVars, runVars, deleteVars, scanVars, firstVars>>

otherThanIncrement ==
  <<retryVars, connVars, relationVars, returnVars, checkVars, queryVars, runVars, deleteVars, scanVars, firstVars>>

otherThanRun ==
  <<retryVars, connVars, relationVars, returnVars, checkVars, queryVars, incVars, deleteVars, scanVars, firstVars>>

otherThanDelete ==
  <<retryVars, connVars, relationVars, returnVars, checkVars, queryVars, incVars, runVars, scanVars, firstVars>>

otherThanScan ==
  <<retryVars, connVars, relationVars, returnVars, checkVars, queryVars, incVars, runVars, deleteVars, firstVars>>

otherThanFirst ==
  <<retryVars, storeVars, relationVars, batchVars, returnVars, checkVars, queryVars, incVars, runVars, deleteVars, scanVars>>

Init ==
  RetryInit /\ ConnInit /\ StoreInit /\ RelationInit /\ BatchInit /\ ReturnInit
  /\ CheckInit /\ QueryInit /\ IncrementInit /\ RunInit /\ DeleteInit /\ ScanInit /\ FirstInit

RetryNext ==
  \/ \E enabled \in BOOLEAN, configured \in BOOLEAN, config \in RetryConfigs,
        name \in OperationNames :
       WithRetry(enabled, configured, config, name) /\ UNCHANGED otherThanRetry
  \/ OperationResolves /\ UNCHANGED otherThanRetry
  \/ \E shape \in ErrorShapes :
       OperationRejectsPassthrough(shape) /\ UNCHANGED otherThanRetry
  \/ \E shape \in ErrorShapes :
       OperationRejectsRetrying(shape) /\ UNCHANGED otherThanRetry

\* The manager's own interface: getInstance when there is no manager,
\* initialize, getFirestore, close, reset, the idle monitor and the clock.
LifecycleNext ==
  \/ \E pooling \in BOOLEAN, runtime \in EdgeRuntimeStates :
       instance = 0 /\ GetInstance(pooling, runtime) /\ UNCHANGED otherThanConn
  \/ \E f \in FactoryIds, fail \in InitFailures :
       Initialize(f, fail) /\ UNCHANGED otherThanConn
  \/ \E f \in FactoryIds, fail \in InitFailures :
       GetFirestore(f, fail) /\ UNCHANGED otherThanConn
  \/ \E f \in FactoryIds : CloseBegin(f) /\ UNCHANGED otherThanConn
  \/ \E f \in FactoryIds, deleted \in BOOLEAN :
       CloseFinish(f, deleted) /\ UNCHANGED otherThanConn
  \/ Reset /\ UNCHANGED otherThanConn
  \/ \E f \in FactoryIds : IdleTick(f) /\ UNCHANGED otherThanConn
  \/ Tick /\ UNCHANGED otherThanConn

\* The singleton: getInstance at any time, initialize, reset and the end of
\* the close that reset started.
SingletonNext ==
  \/ \E pooling \in BOOLEAN, runtime \in EdgeRuntimeStates :
       GetInstance(pooling, runtime) /\ UNCHANGED otherThanConn
  \/ \E f \in FactoryIds, fail \in InitFailures :
       Initialize(f, fail) /\ UNCHANGED otherThanConn
  \/ Reset /\ UNCHANGED otherThanConn
  \/ \E f \in FactoryIds, deleted \in BOOLEAN :
       CloseFinish(f, deleted) /\ UNCHANGED otherThanConn

\* Facades made and closed through the registry, and their operations.
ConnNext ==
  \/ \E name \in PlainNames, pooling \in BOOLEAN, runtime \in EdgeRuntimeStates :
       CreateInstance(name, pooling, runtime) /\ UNCHANGED otherThanConn
  \/ \E g \in FacadeIds, fam \in Families, fail \in InitFailures, callOk \in BOOLEAN :
       FacadeOperation(g, fam, fail, callOk) /\ UNCHANGED otherThanConn
  \/ \E g \in FacadeIds, name \in PlainNames \cup {NoName} :
       FacadeCloseBegin(g, name) /\ UNCHANGED otherThanConn
  \/ \E g \in FacadeIds, deleted \in BOOLEAN :
       FacadeCloseFinish(g, deleted) /\ UNCHANGED otherThanConn
  \/ \E f \in FactoryIds : IdleTick(f) /\ UNCHANGED otherThanConn
  \/ Tick /\ UNCHANGED otherThanConn

\* The registry: createInstance, setDefault, closeInstance and closeAll, with
\* the operations of the registered Facades, under names that are not empty.
RegistryNext ==
  \/ \E name \in PlainNames, pooling \in BOOLEAN, runtime \in EdgeRuntimeStates :
       CreateInstance(name, pooling, runtime) /\ UNCHANGED otherThanConn
  \/ \E name \in PlainNames : SetDefault(name) /\ UNCHANGED otherThanConn
  \/ \E g \in FacadeIds, fam \in Families, fail \in InitFailures, callOk \in BOOLEAN :
       FacadeOperation(g, fam, fail, callOk) /\ UNCHANGED otherThanConn
  \/ \E g \in FacadeIds, name \in PlainNames :
       FacadeCloseBegin(g, name) /\ UNCHANGED otherThanConn
  \/ \E g \in FacadeIds, deleted \in BOOLEAN :
       FacadeCloseFinish(g, deleted) /\ UNCHANGED otherThanConn
  \/ CloseAllBegin /\ UNCHANGED otherThanConn
  \/ CloseAllFinish /\ UNCHANGED otherThanConn

\* The registry's map alone: createInstance, setDefault and closeInstance on
\* Facades that never connected (their close() has no app to delete).
NamesNext ==
  \/ \E name \in Names, pooling \in BOOLEAN, runtime \in EdgeRuntimeStates :
       CreateInstance(name, pooling, runtime) /\ UNCHANGED otherThanConn
  \/ \E name \in Names : SetDefault(name) /\ UNCHANGED otherThanConn
  \/ \E g \in FacadeIds, name \in Names :
       FacadeCloseBegin(g, name) /\ UNCHANGED otherThanConn

\* The registry's map and its default under every name, the empty one
\* included: createInstance, setDefault, closeInstance and closeAll on Facades
\* that never connected; the closes closeAll makes are awaited one by one.
DefaultNext ==
  \/ \E name \in Names, pooling \in BOOLEAN, runtime \in EdgeRuntimeStates :
       CreateInstance(name, pooling, runtime) /\ UNCHANGED otherThanConn
  \/ \E name \in Names : SetDefault(name) /\ UNCHANGED otherThanConn
  \/ \E g \in FacadeIds, name \in Names :
       FacadeCloseBegin(g, name) /\ UNCHANGED otherThanConn
  \/ \E g \in FacadeIds, deleted \in BOOLEAN :
       FacadeCloseFinish(g, deleted) /\ UNCHANGED otherThanConn
  \/ CloseAllBegin /\ UNCHANGED otherThanConn
  \/ CloseAllFinish /\ UNCHANGED otherThanConn

\* The relational documents: the writes of RelationalCrudService and
\* MigrationService.convertToRelational on them, and the update and delete of
\* SimpleCrudService.
RelationalNext ==
  \/ \E id \in DocIds, data \in UpdateObjects,
        enabled \in BOOLEAN, configured \in BOOLEAN, config \in ServiceConfigs :
       Update(id, data, enabled, configured, config)
         /\ UNCHANGED otherThanStore
  \/ \E data \in DataObjects, refs \in RefObjects, docId \in DocIds \cup {0} :
       CreateRelational(data, refs, docId) /\ UNCHANGED otherThanStore
  \/ \E id \in DocIds, data \in DataObjects, refs \in RefObjects, merge \in BOOLEAN :
       SetRelational(id, data, refs, merge) /\ UNCHANGED otherThanStore
  \/ \E id \in DocIds, updates \in UpdateObjects,
        enabled \in BOOLEAN, configured \in BOOLEAN, config \in ServiceConfigs :
       UpdateData(id, updates, enabled, configured, config)
         /\ UNCHANGED otherThanStore
  \/ \E id \in DocIds, refs \in RefUpdateObjects,
        enabled \in BOOLEAN, configured \in BOOLEAN, config \in ServiceConfigs :
       UpdateRefs(id, refs, enabled, configured, config)
         /\ UNCHANGED otherThanStore
  \/ \E id \in DocIds, updates \in UpdateObjects, refs \in RefUpdateObjects,
        enabled \in BOOLEAN, configured \in BOOLEAN, config \in ServiceConfigs :
       UpdateRelational(id, updates, refs, enabled, configured, config)
         /\ UNCHANGED otherThanStore
  \/ \E id \in DocIds, refKeys \in SUBSET {<<"k">>},
        enabled \in BOOLEAN, configured \in BOOLEAN, config \in ServiceConfigs :
       ConvertToRelational(id, refKeys, enabled, configured, config)
         /\ UNCHANGED otherThanStore
  \/ \E id \in DocIds : Delete(id) /\ UNCHANGED otherThanStore

\* One caller toggling a relation, in a collection that holds other
\* documents and none that has or matches the refs of the calls.
ToggleNext ==
  \/ \E data \in DataObjects, refs \in RefObjects :
       /\ ~callRefs.chosen
       /\ CreateRelational(data, refs, 0) /\ UNCHANGED otherThanStore
  \/ \E data \in DataObjects, refs \in RefObjects :
       /\ ~callRefs.chosen =>
            {id \in DocIds : MatchesQuery(store[id], refs) \/ HasRefs(store[id], refs)} = {}
       /\ ToggleRelation(data, refs) /\ UNCHANGED otherThanRelation

\* Relations created with refs of one key or two, and one caller toggling.
ToggleAmongNext ==
  \/ \E data \in BatchData, refs \in RelationRefObjects :
       CreateRelational(data, refs, 0) /\ UNCHANGED otherThanStore
  \/ \E data \in BatchData, refs \in RelationRefObjects :
       ToggleRelation(data, refs) /\ UNCHANGED otherThanRelation

\* Callers of findOrCreateWithRefs, their awaits interleaved.
FindOrCreateNext ==
  \/ \E c \in CallerIds, data \in DataObjects, refs \in RefObjects :
       FindOrCreateFind(c, data, refs) /\ UNCHANGED otherThanRelation
  \/ \E c \in CallerIds : FindOrCreateCreate(c) /\ UNCHANGED otherThanRelation
  \/ \E c \in CallerIds : FindOrCreateRead(c) /\ UNCHANGED otherThanRelation

\* The batch operations.
BatchNext ==
  \/ \E items \in BatchInputs, data \in BatchData, delivered \in CommitOutcomes,
        enabled \in BOOLEAN, configured \in BOOLEAN, config \in BatchConfigs :
       BatchCreate(items, data, delivered, enabled, configured, config)
         /\ UNCHANGED otherThanBatch
  \/ \E items \in BatchInputs, data \in BatchData, merge \in BOOLEAN,
        delivered \in CommitOutcomes :
       BatchSet(items, data, merge, delivered) /\ UNCHANGED otherThanBatch
  \/ \E items \in BatchInputs, data \in BatchData, delivered \in CommitOutcomes :
       BatchUpdate(items, data, delivered) /\ UNCHANGED otherThanBatch
  \/ \E items \in BatchInputs, delivered \in CommitOutcomes :
       BatchDelete(items, delivered) /\ UNCHANGED otherThanBatch
  \/ \E items \in BatchInputs, delivered \in CommitOutcomes :
       BatchIncrement(items, delivered) /\ UNCHANGED otherThanBatch

\* Balances set and transferred.
TransferNext ==
  \/ \E id \in DocIds, data \in BalanceObjects, merge \in BOOLEAN :
       Set(id, data, merge) /\ UNCHANGED otherThanBatch
  \/ \E fromId \in DocIds, toId \in DocIds, amount \in 1..MaxValue,
        enabled \in BOOLEAN, configured \in BOOLEAN, config \in ServiceConfigs :
       AtomicTransfer(fromId, toId, amount, enabled, configured, config)
         /\ UNCHANGED otherThanBatch
  \/ \E id \in DocIds : Delete(id) /\ UNCHANGED otherThanStore

\* Documents set, swapped and deleted.
SwapNext ==
  \/ \E id \in DocIds, data \in DataObjects, merge \in BOOLEAN :
       Set(id, data, merge) /\ UNCHANGED otherThanBatch
  \/ \E id \in DocIds, field \in Keys, expectedValue \in ExpectedValues,
        newValue \in 1..MaxValue,
        enabled \in BOOLEAN, configured \in BOOLEAN, config \in ServiceConfigs :
       CompareAndSwap(id, field, expectedValue, newValue, enabled, configured, config)
         /\ UNCHANGED otherThanReturn
  \/ \E id \in DocIds : Delete(id) /\ UNCHANGED otherThanStore

\* Calls given identifier strings, on documents created before.
ValidationNext ==
  \/ \E data \in BatchData, refs \in ParentRefs, docId \in {0} \cup DocIds :
       CreateRelational(data, refs, docId) /\ UNCHANGED otherThanStore
  \/ \E collection \in PathStrings, id \in IdStrings :
       DeleteAt(collection, id) /\ UNCHANGED otherThanChecked
  \/ \E collection \in PathStrings, ids \in CheckedInputs, data \in BatchData,
        merge \in BOOLEAN, delivered \in CommitOutcomes :
       BatchSetAt(collection, ids, data, merge, delivered)
         /\ UNCHANGED otherThanChecked
  \/ \E parentCollection \in PathStrings, parentId \in IdStrings,
        rules \in CascadeRules, accepted \in BOOLEAN :
       CascadeDeleteRelational(parentCollection, parentId, rules, accepted)
         /\ UNCHANGED otherThanChecked

\* Operations that fail with logical errors, on a service with retry enabled.
LogicalNext ==
  \/ \E id \in DocIds, data \in BalanceObjects, merge \in BOOLEAN :
       Set(id, data, merge) /\ UNCHANGED otherThanBatch
  \/ \E id \in DocIds, data \in BalanceObjects, config \in ServiceConfigs :
       Update(id, data, TRUE, TRUE, config) /\ UNCHANGED otherThanStore
  \/ \E id \in DocIds, amount \in 1..MaxValue, hasMin \in BOOLEAN,
        minValue \in MinValues, config \in ServiceConfigs :
       AtomicDecrement(id, amount, hasMin, minValue, TRUE, TRUE, config)
         /\ UNCHANGED otherThanBatch
  \/ \E fromId \in DocIds, toId \in DocIds, amount \in 1..MaxValue,
        config \in ServiceConfigs :
       AtomicTransfer(fromId, toId, amount, TRUE, TRUE, config)
         /\ UNCHANGED otherThanBatch

\* Pages of queries over documents set and deleted.
QueryNext ==
  \/ \E id \in DocIds, data \in BalanceObjects, merge \in BOOLEAN :
       Set(id, data, merge) /\ UNCHANGED otherThanBatch
  \/ \E id \in DocIds : Delete(id) /\ UNCHANGED otherThanStore
  \/ \E filters \in QueryFilters, limit \in 1..MaxLimit, startAfter \in {0} \cup DocIds :
       QueryPaginated(filters, limit, startAfter) /\ UNCHANGED otherThanQuery

\* Callers of atomicIncrement on one field of one document, their
\* transactions interleaved; every commit is answered.
IncrementNext ==
  \/ \E id \in DocIds, data \in CounterObjects :
       ~incCall.chosen /\ Set(id, data, FALSE) /\ UNCHANGED otherThanBatch
  \/ \E c \in CallerIds, id \in DocIds, field \in IncrementFields, amount \in Amounts,
        enabled \in BOOLEAN, configured \in BOOLEAN, config \in IncrementConfigs :
       IncrementBegin(c, id, field, amount, enabled, configured, config)
         /\ UNCHANGED otherThanIncrement
  \/ \E c \in CallerIds : IncrementGet(c) /\ UNCHANGED otherThanIncrement
  \/ \E c \in CallerIds : IncrementCommit(c, FALSE) /\ UNCHANGED otherThanIncrement

\* The same, with answers to commits that may be lost.
RetriedIncrementNext ==
  \/ \E id \in DocIds, data \in CounterObjects :
       ~incCall.chosen /\ Set(id, data, FALSE) /\ UNCHANGED otherThanBatch
  \/ \E c \in CallerIds, id \in DocIds, field \in IncrementFields, amount \in Amounts,
        enabled \in BOOLEAN, configured \in BOOLEAN, config \in IncrementConfigs :
       IncrementBegin(c, id, field, amount, enabled, configured, config)
         /\ UNCHANGED otherThanIncrement
  \/ \E c \in CallerIds : IncrementGet(c) /\ UNCHANGED otherThanIncrement
  \/ \E c \in CallerIds, lost \in BOOLEAN :
       IncrementCommit(c, lost) /\ UNCHANGED otherThanIncrement

\* First operations of Facades, issued together: the Facades are constructed
\* without pooling (reset may drop the manager between two constructions), and
\* then the operations run, interleaved at their awaits.
FirstNext ==
  \/ \E name \in PlainNames :
       CreateInstance(name, FALSE, "absent") /\ UNCHANGED otherThanConn
  \/ (\A c \in CallerIds : firstOps[c].pc = "idle") /\ Reset /\ UNCHANGED otherThanConn
  \/ \E c \in CallerIds, g \in FacadeIds, fam \in Families, fail \in InitFailures :
       OperationCall(c, g, fam, fail) /\ UNCHANGED otherThanFirst
  \/ \E c \in CallerIds : OperationInitialized(c) /\ UNCHANGED otherThanFirst
  \/ \E c \in CallerIds, fail \in InitFailures :
       OperationGetFirestore(c, fail) /\ UNCHANGED otherThanFirst
  \/ \E c \in CallerIds : OperationConstruct(c) /\ UNCHANGED otherThanFirst

\* One batch operation followed commit by commit, on documents set before.
RunNext ==
  \/ \E id \in DocIds, data \in BalanceObjects :
       batchRun.pc = "idle" /\ Set(id, data, FALSE) /\ UNCHANGED otherThanBatch
  \/ \E op \in RunOps, items \in BatchInputs :
       RunStart(op, items) /\ UNCHANGED otherThanRun
  \/ RunCommit /\ UNCHANGED otherThanRun
  \/ \E n \in 1..MaxChunks, data \in BatchData, merge \in BOOLEAN, delivered \in BOOLEAN :
       RunSettle(n, data, merge, delivered) /\ UNCHANGED otherThanRun
  \/ RunReturn /\ UNCHANGED otherThanRun

\* Collections filled and emptied.
DeleteNext ==
  \/ \E id \in DocIds, data \in BalanceObjects, merge \in BOOLEAN :
       Set(id, data, merge) /\ UNCHANGED otherThanBatch
  \/ \E batchSize \in 1..MaxPageSize :
       DeleteCollection(batchSize) /\ UNCHANGED otherThanDelete

\* Documents written by batchSet and scanned by a migration.
ScanNext ==
  \/ \E items \in BatchInputs, data \in BatchData :
       BatchSet(items, data, FALSE, [n \in 1..MaxChunks |-> TRUE])
         /\ UNCHANGED otherThanBatch
  \/ \E op \in ScanOps, batchSize \in 1..MaxBatchSize, data \in BatchData,
        throwing \in ThrowingSets, delivered \in ScanOutcomes,
        error \in CommitErrors, enabled \in BOOLEAN, config \in BatchConfigs :
       Scan(op, batchSize, data, throwing, delivered, error, enabled, TRUE, config)
         /\ UNCHANGED otherThanScan

\* The Backoff Executor alone.
SpecRetry == Init /\ [][RetryNext]_vars

\* The Connection Lifecycle Manager alone.
SpecLifecycle == Init /\ [][LifecycleNext]_vars

\* The singleton of the Connection Lifecycle Manager.
SpecSingleton == Init /\ [][SingletonNext]_vars

\* The Facades and the registry on top of the manager.
SpecConn == Init /\ [][ConnNext]_vars

\* The Instance Registry's map.
SpecNames == Init /\ [][NamesNext]_vars

\* The Instance Registry.
SpecRegistry == Init /\ [][RegistryNext]_vars

\* The registry's default name.
SpecDefault == Init /\ [][DefaultNext]_vars

\* The relational-document convention.
SpecRelational == Init /\ [][RelationalNext]_vars

\* toggleRelation, called again and again by one caller.
SpecToggle == Init /\ [][ToggleNext]_vars

\* toggleRelation in a collection that holds relations of other refs.
SpecToggleAmong == Init /\ [][ToggleAmongNext]_vars

\* findOrCreateWithRefs, called concurrently.
SpecFindOrCreate == Init /\ [][FindOrCreateNext]_vars

\* The Batch Service.
SpecBatch == Init /\ [][BatchNext]_vars

\* atomicTransfer on balances.
SpecTransfer == Init /\ [][TransferNext]_vars

\* compareAndSwap on documents set before.
SpecSwap == Init /\ [][SwapNext]_vars

\* The validation of identifiers.
SpecValidation == Init /\ [][ValidationNext]_vars

\* Logical errors under retry.
SpecLogical == Init /\ [][LogicalNext]_vars

\* Paginated queries.
SpecQuery == Init /\ [][QueryNext]_vars

\* One batch operation, commit by commit.
SpecRun == Init /\ [][RunNext]_vars

\* deleteCollection.
SpecDelete == Init /\ [][DeleteNext]_vars

\* Migration scans.
SpecScan == Init /\ [][ScanNext]_vars

\* Concurrent atomicIncrement calls.
SpecIncrement == Init /\ [][IncrementNext]_vars

\* Concurrent atomicIncrement calls whose commits may go unanswered.
SpecRetriedIncrement == Init /\ [][RetriedIncrementNext]_vars

\* Concurrent first operations of Facades.
SpecFirst == Init /\ [][FirstNext]_vars

Next ==
  \/ RetryNext \/ LifecycleNext \/ ConnNext \/ RegistryNext
  \/ RelationalNext \/ ToggleNext \/ ToggleAmongNext \/ FindOrCreateNext
  \/ BatchNext \/ TransferNext \/ SwapNext \/ ValidationNext
  \/ LogicalNext \/ QueryNext \/ SingletonNext \/ DefaultNext
  \/ IncrementNext \/ RetriedIncrementNext \/ RunNext \/ DeleteNext \/ ScanNext
  \/ FirstNext

Spec == Init /\ [][Next]_vars

(***************************************************************************)
(* Properties of the Backoff Executor                                      *)
(***************************************************************************)

RECURSIVE Pow(_, _)
Pow(b, n) == IF n = 0 THEN 1 ELSE b * Pow(b, n - 1)

Last(s) == s[Len(s)]

\* the call went to retryWithBackoff (retry on and a RetryConfig given)
InRetryLoop == pc # "idle" /\ enableRetry /\ hasConfig

\* the call was made with retry off or without a RetryConfig
RetryDisabled == pc # "idle" /\ (~enableRetry \/ ~hasConfig)

IsError(outcome) == ~outcome.ok

Retryable(outcome) ==
  /\ IsError(outcome)
  /\ (IF outcome.code # "" THEN outcome.code ELSE outcome.status) \in RetryableCodes

AllCallsRetryable == \A i \in 1..Len(calls) : Retryable(calls[i])

C2_NonRetryablePropagatedUnchanged ==
  (InRetryLoop /\ calls # <<>> /\ IsError(Last(calls)) /\ ~Retryable(Last(calls))) =>
    /\ pc = "threw"
    /\ thrown = Rethrow(Last(calls))
    /\ Len(sleeps) = Len(calls) - 1

\* C3: with retry disabled (flag off, or no RetryConfig) the call sequence is
\* invoked exactly once, nothing sleeps, and a failure reaches the caller as
\* the original error object whatever its code.
C3_DisabledIsPassthrough ==
  RetryDisabled =>
    /\ sleeps = <<>>
    /\ pc = "passthrough" => calls = <<>>
    /\ pc \in {"returned", "threw"} => Len(calls) = 1
    /\ pc = "threw" => thrown = Rethrow(calls[1])
    /\ pc = "returned" => thrown = NoThrow

\* Retry switched off although a RetryConfig is present, and the single call
\* failed with a whitelisted code.
C3_Witness ==
  /\ RetryDisabled
  /\ ~enableRetry /\ hasConfig
  /\ pc = "threw"
  /\ Retryable(calls[1])

\* C4: the k-th sleep (k = 0 .. maxRetries - 1) lasts exactly
\* min(initialDelay * backoffMultiplier^k, maxDelay): a function of the
\* RetryConfig alone.
C4_SleepSequence ==
  InRetryLoop =>
    /\ Len(sleeps) <= retryConfig.maxRetries
    /\ \A k \in 1..Len(sleeps) :
         sleeps[k] = Min(retryConfig.initialDelay
                           * Pow(retryConfig.backoffMultiplier, k - 1),
                         retryConfig.maxDelay)

\* A run whose third sleep is clamped to maxDelay.
C4_Witness ==
  /\ InRetryLoop
  /\ retryConfig.maxDelay = 250
  /\ sleeps = <<100, 200, 250>>

(***************************************************************************)
(* Properties of the Connection Lifecycle Manager                          *)
(***************************************************************************)

\* the manager holds nothing: no timer, no app, no handle, not connected
Released(c) ==
  ~c.idleCheckInterval /\ c.app = 0 /\ c.db = 0 /\ ~c.isConnected

\* C5: a second initialize() that follows a successful initialize() on the
\* same manager, no close() begun in between, creates no further app and
\* returns the handle the first call returned.
C5_InitializeTwiceOneConnection ==
  [][\A f \in FactoryIds, fail \in InitFailures :
       ( /\ lastCall.op = "initialize" /\ lastCall.ok /\ lastCall.f = f
         /\ f \notin pendingCloses
         /\ Initialize(f, fail)
         /\ lastCall'.ok )
       => /\ appsCreated' = appsCreated
          /\ adminApps' = adminApps
          /\ lastCall'.handle = lastCall.handle
          /\ factories'[f].db = factories[f].db
          /\ factories'[f].app = factories[f].app]_vars

\* An initialize() has returned that found the manager connected by an
\* earlier one: it counted as activity, and one app exists.
C5_Witness ==
  /\ lastCall.op = "initialize" /\ lastCall.ok
  /\ lastCall.from = "connected"
  /\ lastCall.handle = 1
  /\ factories[lastCall.f].operationCount >= 1
  /\ appsCreated = 1
  /\ pendingCloses = {}

\* C6: a getFirestore() that finds the connection flagged as disconnected
\* re-initializes it: if it returns, the manager is connected, lastActivity is
\* the current time and the handle returned is the manager's handle; and while
\* flagged, a manager becomes connected by no step other than an initialize() or
\* getFirestore() call.
C6_LazyReconnect ==
  [][\A f \in FactoryIds :
       StateOf(factories[f]) = "flagged" =>
         /\ \A fail \in InitFailures :
              (GetFirestore(f, fail) /\ lastCall'.ok) =>
                /\ factories'[f].isConnected
                /\ factories'[f].lastActivity = now
                /\ lastCall'.handle = factories'[f].db
                /\ lastCall'.handle # 0
         /\ ~(\E fail \in InitFailures : GetFirestore(f, fail) \/ Initialize(f, fail)) =>
              /\ ~factories'[f].isConnected
              /\ factories'[f].db \in {factories[f].db, 0}
              /\ factories'[f].app \in {factories[f].app, 0}]_vars

\* getFirestore() has returned after finding flagged a connection that had
\* been in use (only the idle monitor flags the one app's connection), later
\* than maxIdleTime after the start.
C6_Witness ==
  /\ lastCall.op = "getFirestore" /\ lastCall.ok
  /\ lastCall.from = "flagged"
  /\ factories[lastCall.f].operationCount >= 1
  /\ appsCreated = 1
  /\ factories[lastCall.f].isConnected
  /\ factories[lastCall.f].lastActivity = now
  /\ now > MaxIdleTime

\* C7: when close() returns the idle monitor is stopped, the app is released,
\* the handle is cleared and isConnected is false; a close() called in that
\* state changes nothing.
C7_CloseReleasesEverything ==
  [][\A f \in FactoryIds :
       /\ (\E deleted \in BOOLEAN : CloseFinish(f, deleted)) => Released(factories'[f])
       /\ (CloseBegin(f) /\ f \notin pendingCloses') => Released(factories'[f])
       /\ (CloseBegin(f) /\ Released(factories[f])) =>
            (factories' = factories /\ adminApps' = adminApps
               /\ pendingCloses' = pendingCloses)]_vars

\* C8: constructing the manager while the EdgeRuntime global is present throws
\* the incompatible-runtime error and constructs nothing; with the global
\* absent or unreadable the construction succeeds.
C8_EdgeRuntimeGuard ==
  [][\A pooling \in BOOLEAN, runtime \in EdgeRuntimeStates :
       (instance = 0 /\ GetInstance(pooling, runtime)) =>
         IF runtime = "present"
           THEN ~lastCall'.ok /\ instance' = 0 /\ factoriesCreated' = factoriesCreated
           ELSE lastCall'.ok /\ instance' # 0]_vars

\* C25: getInstance returns the manager there is, whatever the options, and
\* leaves it and its options as they are; reset() drops the manager, and a
\* getInstance that finds none constructs a new manager, uninitialized.
C25_SingletonUntilReset ==
  [][/\ \A pooling \in BOOLEAN, runtime \in EdgeRuntimeStates :
          GetInstance(pooling, runtime) =>
            IF instance # 0
              THEN /\ lastCall'.ok /\ lastCall'.f = instance
                   /\ instance' = instance
                   /\ factories' = factories
                   /\ factoriesCreated' = factoriesCreated
              ELSE lastCall'.ok =>
                     /\ lastCall'.f = instance'
                     /\ instance' > factoriesCreated
                     /\ StateOf(factories'[instance']) = "uninitialized"
                     /\ factories'[instance'].app = 0
                     /\ ~factories'[instance'].isConnected
                     /\ factories'[instance'].operationCount = 0
                     /\ factories'[instance'].enablePooling = pooling
     /\ Reset => instance' = 0]_vars

\* getInstance has returned the second manager, made after a reset and
\* connected since, to a caller whose options differ from the manager's
C25_Witness ==
  /\ lastCall.op = "getInstance" /\ lastCall.ok
  /\ lastCall.from = "connected"
  /\ lastCall.f = 2 /\ instance = 2
  /\ factoriesCreated = 2

\* C26: every getFirestore() that returns a handle has increased
\* operationCount by one and set lastActivity to the current time, whether the
\* manager was connected or was initialized again by the call.
C26_GetFirestoreCountsEveryReturn ==
  [][\A f \in FactoryIds, fail \in InitFailures :
       (GetFirestore(f, fail) /\ lastCall'.ok) =>
         /\ factories'[f].operationCount = factories[f].operationCount + 1
         /\ factories'[f].lastActivity = now]_vars

\* C27: an initialize() that succeeds on a manager that was not connected
\* leaves it connected, with lastActivity the current time and operationCount 0.
C27_InitializeResetsCount ==
  [][\A f \in FactoryIds, fail \in InitFailures :
       (/\ Initialize(f, fail)
        /\ StateOf(factories[f]) # "connected"
        /\ lastCall'.ok) =>
         /\ StateOf(factories'[f]) = "connected"
         /\ factories'[f].lastActivity = now
         /\ factories'[f].operationCount = 0]_vars

\* C28: a tick of the idle monitor clears isConnected exactly when the time
\* since lastActivity is greater than maxIdleTime, and leaves isConnected as it
\* was otherwise; the handle, the app, operationCount, lastActivity, the timer
\* and the live apps are as before the tick.
C28_IdleTickOnlyFlags ==
  [][\A f \in FactoryIds :
       IdleTick(f) =>
         LET c == factories[f]
             d == factories'[f]
         IN  /\ d.isConnected = (c.isConnected /\ ~(now - c.lastActivity > MaxIdleTime))
             /\ d.db = c.db /\ d.app = c.app
             /\ d.operationCount = c.operationCount
             /\ d.lastActivity = c.lastActivity
             /\ d.idleCheckInterval = c.idleCheckInterval
             /\ adminApps' = adminApps
             /\ \A g \in FactoryIds \ {f} : factories'[g] = factories[g]]_vars

\* the monitor of a manager that had served operations has found it idle for
\* longer than maxIdleTime and flagged it: handle, app and timer are in place
C28_Witness ==
  /\ instance # 0
  /\ factories[instance].idleCheckInterval
  /\ ~factories[instance].isConnected
  /\ factories[instance].db # 0 /\ factories[instance].app # 0
  /\ factories[instance].operationCount > 0
  /\ now - factories[instance].lastActivity > MaxIdleTime

(***************************************************************************)
(* Properties of the Facades and the registry                              *)
(***************************************************************************)

\* what one Facade sees of its connection
ConnectionOf(g) ==
  LET c == factories[facades[g].connectionFactory] IN
  [isConnected |-> c.isConnected, db |-> c.db, operationCount |-> c.operationCount]

RegisteredApart(g, h) ==
  \E n \in Names, m \in Names : n # m /\ instances[n] = g /\ instances[m] = h

\* C9: Facades registered under different names own independent connections:
\* closing one of them, or the idle monitor flagging its connection, leaves
\* isConnected, the handle and operationCount of every other Facade unchanged.
C9_IndependentConnections ==
  [][\A g \in FacadeIds, h \in FacadeIds :
       ( /\ RegisteredApart(g, h)
         /\ \/ \E name \in Names \cup {NoName} : FacadeCloseBegin(g, name)
            \/ \E deleted \in BOOLEAN : FacadeCloseFinish(g, deleted)
            \/ IdleTick(facades[g].connectionFactory) )
       => ConnectionOf(h)' = ConnectionOf(h)]_vars

\* C10: every operation of a Facade whose underlying-client call succeeded
\* has increased operationCount and set lastActivity to the current time.
C10_EveryOperationUpdatesMetrics ==
  [][\A g \in FacadeIds, fam \in Families, fail \in InitFailures :
       (FacadeOperation(g, fam, fail, TRUE) /\ lastCall'.ok) =>
         LET f == facades[g].connectionFactory IN
           /\ factories'[f].operationCount > factories[f].operationCount
           /\ factories'[f].lastActivity = now]_vars

\* C11: createInstance with a name that is already registered returns the
\* registered Facade and leaves the registry, the default name and every
\* Facade and manager (their configuration included) unchanged.
C11_CreateExistingReturnsExisting ==
  [][\A name \in Names, pooling \in BOOLEAN, runtime \in EdgeRuntimeStates :
       (instances[name] # 0 /\ CreateInstance(name, pooling, runtime)) =>
         /\ lastCall'.op = "createInstance" /\ lastCall'.ok
         /\ lastCall'.facade = instances[name]
         /\ instances' = instances
         /\ defaultInstanceName' = defaultInstanceName
         /\ facades' = facades
         /\ factories' = factories
         /\ facadesCreated' = facadesCreated]_vars

\* createInstance returned the Facade registered under a name whose options
\* differ from the default, while another name is the default
C11_Witness ==
  /\ lastCall.op = "createInstance" /\ lastCall.from = "registered"
  /\ lastCall.facade = 2
  /\ instances["b"] = 2
  /\ defaultInstanceName = "a"
  /\ facades[2].enablePooling # facades[1].enablePooling

\* C12: when closeAll() resolves the registry is empty and every Facade that
\* this step removed from the registry was closed by this closeAll().
C12_CloseAllClosesWhatItRemoves ==
  [][CloseAllFinish =>
       /\ \A n \in Names : instances'[n] = 0
       /\ \A n \in Names :
            instances[n] # 0 => instances[n] \in closeAll.snapshot]_vars

\* C29: whenever the registry has an entry, the default name is the name of
\* one of its entries, so that getDefault() returns a Facade.
C29_DefaultIsRegistered ==
  RegisteredNames # {} => defaultInstanceName \in RegisteredNames

(***************************************************************************)
(* Properties of the services over the document store                      *)
(***************************************************************************)

\* what a read of the document returns under data[key], under data and
\* under refs
DataKey(doc, key) ==
  {l \in doc.fields : Len(l.path) >= 2 /\ l.path[1] = <<"data">> /\ l.path[2] = key}

DataOf(doc) == {l \in doc.fields : l.path[1] = <<"data">>}

RefsOf(doc) == {l \in doc.fields : l.path[1] = <<"refs">>}

DataKeysOf(doc) == {l.path[2] : l \in DataOf(doc)}

\* C13: update, updateData, updateRefs and updateRelational on a document
\* that does not exist throw DocumentNotFoundError after the existence read,
\* issue no update call and leave the store unchanged.
C13_UpdateMissingThrowsNotFound ==
  [][\A id \in DocIds, updates \in UpdateObjects, refs \in RefUpdateObjects,
        enabled \in BOOLEAN, configured \in BOOLEAN, config \in ServiceConfigs :
       ( /\ ~store[id].exists
         /\ \/ Update(id, updates, enabled, configured, config)
            \/ UpdateData(id, updates, enabled, configured, config)
            \/ UpdateRefs(id, refs, enabled, configured, config)
            \/ UpdateRelational(id, updates, refs, enabled, configured, config) )
       => /\ lastOp'.thrown = Rethrow(DocumentNotFoundError)
          /\ lastOp'.gets >= 1
          /\ lastOp'.updates = 0
          /\ store' = store]_vars

\* C14: updateData on an existing relational document changes, of what
\* readRelational returns, only the data keys named in updates and updatedAt;
\* updateRefs leaves data and createdAt unchanged.
C14_UpdateDataFrame ==
  [][\A id \in DocIds,
        enabled \in BOOLEAN, configured \in BOOLEAN, config \in ServiceConfigs :
       /\ \A updates \in UpdateObjects :
            (store[id].exists /\ UpdateData(id, updates, enabled, configured, config))
            => /\ \A key \in (DataKeysOf(store[id]) \cup DataKeysOf(store'[id]))
                              \ KeysOf(updates) :
                    DataKey(store'[id], key) = DataKey(store[id], key)
               /\ RefsOf(store'[id]) = RefsOf(store[id])
               /\ store'[id].createdAt = store[id].createdAt
       /\ \A refs \in RefUpdateObjects :
            (store[id].exists /\ UpdateRefs(id, refs, enabled, configured, config))
            => /\ DataOf(store'[id]) = DataOf(store[id])
               /\ store'[id].createdAt = store[id].createdAt]_vars

\* C15: while a document that has a createdAt exists, no operation changes or
\* removes its createdAt.
C15_CreatedAtNeverOverwritten ==
  [][\A id \in DocIds :
       (store[id].exists /\ store[id].createdAt # 0 /\ store'[id].exists)
       => store'[id].createdAt = store[id].createdAt]_vars

WithRefs(refs) == {id \in DocIds : HasRefs(store[id], refs)}

\* C16: the toggleRelation calls of one caller with identical refs, from a
\* collection without a matching document, return created, deleted, created,
\* ... in turn; one matching document exists after an odd number of calls and
\* none after an even number.
C16_ToggleAlternates ==
  /\ \A i \in 1..Len(toggleActions) :
       toggleActions[i] = IF i % 2 = 1 THEN "created" ELSE "deleted"
  /\ callRefs.chosen =>
       Cardinality(WithRefs(callRefs.refs)) = Len(toggleActions) % 2

\* C17: of the findOrCreateWithRefs calls with identical refs, interleaved in
\* any way from a collection without a document with those refs, at most one
\* returns created true and at most one document with those refs exists.
C17_FindOrCreateNoDuplicates ==
  /\ Cardinality({c \in CallerIds : callers[c].pc = "done" /\ callers[c].created}) <= 1
  /\ callRefs.chosen => Cardinality(WithRefs(callRefs.refs)) <= 1

\* C30: the document a toggleRelation deletes has exactly the refs of the
\* call: the same keys with the same values, and no other.
C30_ToggleDeletesExactMatchOnly ==
  [][\A data \in BatchData, refs \in RelationRefObjects :
       ToggleRelation(data, refs) =>
         \A id \in DocIds :
           (store[id].exists /\ ~store'[id].exists) =>
             RefsOf(store[id]) = ObjectFields("refs", refs)]_vars

AllDelivered(delivered) == \A i \in 1..MaxChunks : delivered[i]

\* C18: a batchUpdate of distinct valid ids, some of existing and some of
\* missing documents, whose commits reach the store, returns without throwing
\* success false, count the number of existing targets and failed exactly the
\* missing ids, and the existing targets are updated.
C18_BatchUpdatePartial ==
  [][\A data \in BatchData, delivered \in CommitOutcomes :
       LET items == lastBatch'.input
           existing == {id \in Range(items) : id # 0 /\ store[id].exists}
           missing == {id \in Range(items) : id # 0 /\ ~store[id].exists}
       IN  ( /\ AllDelivered(delivered)
             /\ lastBatch'.op = "batchUpdate"
             /\ 0 \notin Range(items)
             /\ existing # {} /\ missing # {}
             /\ BatchUpdate(items, data, delivered) )
           => /\ lastBatch'.thrown = NoThrow
              /\ ~lastBatch'.success
              /\ lastBatch'.count = Cardinality(existing)
              /\ Range(lastBatch'.failed) = missing
              /\ Len(lastBatch'.failed) = Cardinality(missing)
              /\ \A id \in existing : store'[id].updatedAt > store[id].updatedAt]_vars

\* C19: a batch operation on a non-empty input returns without throwing when
\* at least one of its writes was committed, and throws BatchOperationError
\* when none was.
C19_BatchThrowsOnlyOnTotalFailure ==
  (lastBatch.op # "none" /\ Len(lastBatch.input) > 0) =>
    /\ lastBatch.committed >= 1 => lastBatch.thrown = NoThrow
    /\ lastBatch.committed = 0 => lastBatch.thrown = Rethrow(BatchOperationError)

\* C20: atomicTransfer from a source whose field is less than the amount
\* throws TransactionError and leaves every document unchanged.
C20_TransferInsufficient ==
  [][\A fromId \in DocIds, toId \in DocIds, amount \in 1..MaxValue,
        enabled \in BOOLEAN, configured \in BOOLEAN, config \in ServiceConfigs :
       ( /\ fromId # toId
         /\ store[fromId].exists /\ store[toId].exists
         /\ FieldNumber(store[fromId], CounterField) < amount
         /\ AtomicTransfer(fromId, toId, amount, enabled, configured, config) )
       => /\ lastOp'.thrown = Rethrow(TransactionError)
          /\ store' = store]_vars

(***************************************************************************)
(* Properties of the transactions and queries                              *)
(***************************************************************************)

\* C21: compareAndSwap on an existing document whose field is not strictly
\* equal to the expected value returns swapped false with the stored value
\* and leaves the document unchanged; otherwise it returns swapped true and
\* the field holds the new value.
C21_CompareAndSwap ==
  [][\A id \in DocIds, field \in Keys, expectedValue \in ExpectedValues,
        newValue \in 1..MaxValue,
        enabled \in BOOLEAN, configured \in BOOLEAN, config \in ServiceConfigs :
       ( /\ store[id].exists
         /\ CompareAndSwap(id, field, expectedValue, newValue,
                           enabled, configured, config) )
       => LET stored == PropertyOf(store[id], field)
          IN  IF stored.kind = "object" \/ stored # expectedValue
                THEN /\ lastSwap' = [returned |-> TRUE, swapped |-> FALSE,
                                     currentValue |-> stored]
                     /\ store' = store
                ELSE /\ lastSwap'.returned /\ lastSwap'.swapped
                     /\ PropertyOf(store'[id], field) = Scalar(newValue)]_vars

\* C22: an operation given an invalid collection path or document id throws
\* the validation error before it issues any call of the client, and its
\* body is not run.
C22_ValidationBeforeIO ==
  (lastChecked.op # "none" /\ lastChecked.invalid)
  => /\ lastChecked.thrown = "validation"
     /\ lastChecked.io = 0
     /\ lastChecked.attempts = 0

\* the error a failed call ended with, wrapped or not
FailureOf(rejection) ==
  IF rejection.kind = "original" THEN rejection.error ELSE rejection.lastError

\* C23: with retry enabled, an operation that fails with DocumentNotFoundError
\* or TransactionError has run its body once and slept never.
C23_LogicalErrorsNotRetried ==
  ( /\ lastOp.thrown # NoThrow
    /\ FailureOf(lastOp.thrown) \in {DocumentNotFoundError, TransactionError} )
  => lastOp.gets = 1 /\ lastOp.sleeps = 0

\* a decrement below the floor was refused with retries left: the error
\* comes back as thrown
C23_Witness ==
  /\ lastOp.op = "atomicDecrement"
  /\ lastOp.thrown = Rethrow(TransactionError)
  /\ lastOp.gets = 1 /\ lastOp.sleeps = 0
  /\ \E id \in DocIds : store[id].exists

\* C24: queryPaginated returns hasMore true exactly when a matching document
\* exists after the page it returns.
C24_HasMoreIffFurther ==
  [][\A filters \in QueryFilters, limit \in 1..MaxLimit, startAfter \in {0} \cup DocIds :
       QueryPaginated(filters, limit, startAfter)
       => LET after == IF lastPage'.docs = <<>> THEN startAfter
                       ELSE lastPage'.lastDoc
          IN  lastPage'.hasMore <=> QueryAfter(store, filters, after) # <<>>]_vars

(***************************************************************************)
(* Properties of concurrent calls, batches and scans                       *)
(***************************************************************************)

RECURSIVE SumOfAmounts(_)
SumOfAmounts(cs) ==
  IF cs = {} THEN 0
  ELSE LET c == CHOOSE x \in cs : TRUE IN incs[c].amount + SumOfAmounts(cs \ {c})

Began == {c \in CallerIds : incs[c].pc # "idle"}

\* C31: when every atomicIncrement call made on one field of one document has
\* returned, the number stored at the field is the number stored before the
\* first call plus the sum of the amounts.
C31_NoLostUpdate ==
  (incCall.chosen /\ \A c \in Began : incs[c].pc = "done") =>
    StoredNumber(store[incCall.id], incCall.field) = incCall.base + SumOfAmounts(Began)

RECURSIVE Flatten(_)
Flatten(chunks) == IF chunks = <<>> THEN <<>> ELSE Head(chunks) \o Flatten(Tail(chunks))

\* C32: the chunks of a batch operation are the input cut in order into
\* pieces of 1..MAX_BATCH_SIZE items; their commits are issued in order, one
\* at a time, each after every earlier commit has settled; and the operation
\* returns after the commit of every chunk has settled, failed ones included.
C32_ChunksOneAtATime ==
  batchRun.pc # "idle" =>
    /\ Flatten(batchRun.chunks) = batchRun.input
    /\ \A n \in 1..Len(batchRun.chunks) :
         Len(batchRun.chunks[n]) \in 1..MaxBatchSize
    /\ Cardinality(batchRun.inFlight) <= 1
    /\ \A j \in 1..Len(batchRun.started) : batchRun.started[j] = j
    /\ \A j \in 1..Len(batchRun.settled) : batchRun.settled[j].chunk = j
    /\ \A n \in batchRun.inFlight :
         Len(batchRun.settled) = n - 1 /\ Len(batchRun.started) = n
    /\ batchRun.pc = "done" => Len(batchRun.settled) = Len(batchRun.chunks)

\* a batchUpdate of two chunks has returned: the commit of the first chunk
\* failed and the commit of the second was applied
C32_Witness ==
  /\ batchRun.pc = "done" /\ batchRun.op = "batchUpdate"
  /\ Len(batchRun.chunks) = 2
  /\ ~batchRun.settled[1].ok /\ batchRun.settled[2].ok

Existing(docs) == {id \in DocIds : docs[id].exists}

\* C33: a deleteCollection with batchSize >= 1 that nothing disturbs reads
\* pages of at most batchSize documents, every page but the last one full and
\* the last one empty or short, commits one batch per page that is not
\* empty, leaves no document, and reports as deleted the number of documents
\* there were.
C33_DeleteCollectionEmpties ==
  [][\A batchSize \in 1..MaxPageSize :
       DeleteCollection(batchSize) =>
         LET pages == lastDelete'.pages IN
           /\ lastDelete'.returned
           /\ Existing(store') = {}
           /\ lastDelete'.deleted = Cardinality(Existing(store))
           /\ Len(pages) >= 1
           /\ \A j \in 1..(Len(pages) - 1) : pages[j] = batchSize
           /\ pages[Len(pages)] < batchSize
           /\ lastDelete'.batches = Cardinality({j \in 1..Len(pages) : pages[j] > 0})]_vars

\* a collection of as many documents as one page holds was emptied: a full
\* page, then the empty one that ends the loop
C33_Witness ==
  /\ lastDelete.returned
  /\ lastDelete.batchSize > 1
  /\ lastDelete.pages = <<lastDelete.batchSize, 0>>
  /\ lastDelete.deleted = lastDelete.batchSize

\* C34: a migration scan returns whatever failed: the documents of a chunk
\* whose commit was rejected are in the error list of the result, and every
\* document of the other chunks that the transformation accepted has been
\* written.
C34_ScanContinuesPastFailures ==
  lastScan.op # "none" =>
    /\ lastScan.thrown = NoThrow
    /\ \A n \in 1..Len(lastScan.chunks) :
         IF n = lastScan.rejected
           THEN Range(lastScan.chunks[n]) \subseteq Range(lastScan.errors)
           ELSE Range(lastScan.chunks[n]) \ Range(lastScan.errors)
                  \subseteq lastScan.processed

\* C35: the idle-monitor timer of a manager runs only if the manager pools
\* and holds a connection: it was initialized and has not been closed since.
C35_TimerOnlyWhileOpen ==
  \A f \in FactoryIds :
    factories[f].idleCheckInterval =>
      factories[f].enablePooling /\ factories[f].db # 0

\* C36: an operation through a Facade whose connection the idle monitor has
\* flagged, the service of the family being constructed already, initializes
\* the manager again: isConnected is true afterwards, and the call runs on the
\* handle the manager holds then.
C36_OperationReconnectsAfterFlag ==
  [][\A g \in FacadeIds, fam \in Families, fail \in InitFailures :
       LET f == facades[g].connectionFactory IN
       ( /\ FacadeOperation(g, fam, fail, TRUE)
         /\ facades[g].services[fam] # 0
         /\ StateOf(factories[f]) = "flagged"
         /\ fail = "none" )
       => /\ factories'[f].isConnected
          /\ lastCall'.handle = factories'[f].db]_vars

\* C38: an atomicTransfer that returns leaves the total of the field over the
\* source and the destination document as it was before the call.
C38_TransferConservesTotal ==
  [][\A fromId \in DocIds, toId \in DocIds, amount \in 1..MaxValue,
        enabled \in BOOLEAN, configured \in BOOLEAN, config \in ServiceConfigs :
       ( /\ store[fromId].exists /\ store[toId].exists
         /\ AtomicTransfer(fromId, toId, amount, enabled, configured, config)
         /\ lastOp'.thrown = NoThrow )
       => FieldNumber(store'[fromId], CounterField)
            + FieldNumber(store'[toId], CounterField)
          = FieldNumber(store[fromId], CounterField)
            + FieldNumber(store[toId], CounterField)]_vars

\* C39: an atomicIncrement call that has returned, no other call having been
\* made on the document, has changed the number stored at the field (a plain
\* field name) by its amount, whatever errors were retried on the way.
C39_ReturnedIncrementAddsAmountOnce ==
  \A c \in CallerIds :
    ( /\ Began = {c}
      /\ incs[c].pc = "done"
      /\ incCall.field = <<"k">> )
    => StoredNumber(store[incCall.id], incCall.field) = incCall.base + incs[c].amount

\* the operations that hold a database handle
Holding == {c \in CallerIds : firstOps[c].pc \in {"construct", "done"}}

C37_BatchResultAccounting ==
  (lastBatch.op # "none" /\ lastBatch.thrown = NoThrow) =>
    /\ lastBatch.count = lastBatch.committed
    /\ lastBatch.count \in 0..Len(lastBatch.input)
    /\ Range(lastBatch.ids) \cap Range(lastBatch.failed) = {}
    /\ lastBatch.success <=> lastBatch.failed = <<>>

====
